---- MODULE Spec2Model ----
(***************************************************************************)
(* Payment orchestration service: idempotent payment creation, payment     *)
(* status state machine, inbound provider webhooks, outbound partner       *)
(* webhooks with persisted retry state.                                    *)
(*                                                                         *)
(* Every HTTP request runs in one database session (get_db): statements    *)
(* are flushed into the request's transaction and become visible to other  *)
(* requests only at commit, which happens after the route handler returns; *)
(* an exception leaving the route rolls the transaction back.  The tables  *)
(* below are the committed rows; txPay/txLog/txPar hold each request's     *)
(* uncommitted writes.  Every await of a handler is one step.              *)
(***************************************************************************)
EXTENDS Integers, Sequences, FiniteSets, TLC

\* ------------------------------------------------------------------ bounds
NProc == 2          \* request slots that may run concurrently
MaxPay == 2         \* Payment rows ever inserted
NKeys == 1          \* distinct Idempotency-Key values
MaxReq == 4         \* requests started in one behaviour
NPartners == 1      \* registered partners
MaxLog == 3         \* WebhookLog rows ever inserted
MaxSvcReq == 3      \* requests started in one behaviour of the service specification
MaxNotify == 1      \* adoption notifications in one behaviour
MaxOverlap == 1     \* retry sweeps started while another sweep is in flight
MaxCrash == 1       \* process stops in one behaviour
MaxPayloadLen == 2  \* bytes of a signed payload
MaxHdrLen == 3      \* characters of a hand-written signature header
MaxTicks == 1       \* clock advances between signing and verifying
MaxRotate == 2      \* secret rotations in one behaviour
MaxInbound == 2     \* inbound partner webhooks in one behaviour
MaxCalls == 4       \* direct calls on the idempotency coordinator in one behaviour
MaxPartners == 2    \* Partner rows ever inserted by the management routes
NPartProc == 2      \* partner management requests that may run concurrently
MaxPartReq == 4     \* partner management requests started in one behaviour
MaxResend == 2      \* notifications in one behaviour of the re-signing specification

Procs == 1..NProc
PayIds == 1..MaxPay
Keys == 1..NKeys
StoreKeys == 1..(NKeys + 1)     \* keys of the coordinator: those of requests and one more
PartnerIds == 1..NPartners
LogIds == 1..MaxLog
NoKey == 0          \* request without Idempotency-Key header / NULL column

VARIABLES
    payments,   \* committed Payment rows, by id
    txPay,      \* per request: uncommitted Payment writes
    nextPay,    \* next fresh Payment id (uuid4 default)
    cache,      \* shared store: idempotency:<key> -> cached response
    lock,       \* shared store: idempotency:lock:<key> present
    proc,       \* per request slot: kind, position and locals
    reqs,       \* requests started so far
    done201,    \* per key: ids of committed Payments returned by completed 201 responses
    provCalls,  \* per key: provider.create_payment invocations
    degraded,   \* this run has shared-store errors and TTL expiries
    wlogs,      \* committed WebhookLog rows, by id
    txLog,      \* per request: uncommitted WebhookLog writes
    nextLog,    \* next fresh WebhookLog id (uuid4 default)
    partners,   \* committed Partner rows, by id
    txPar,      \* per request: uncommitted Partner writes
    now,        \* datetime.utcnow(), in minutes
    hist,       \* per WebhookLog: statuses written to the row, in order
    resps,      \* per WebhookLog: partner responses to its POSTs, in order
    overlaps,   \* retry sweeps started while another sweep was in flight
    crashes,    \* process stops so far
    sig,        \* signature check in progress: inputs, header, clock, result
    psec,       \* per partner: secret, previous_secret, previous_secret_valid_until
    pw,         \* inbound partner webhook: signer, time, row read, response
    calls,      \* latest call on the idempotency coordinator, and what was stored by calls
    prows,      \* partners table as the management routes use it: name, status, secrets
    ptx,        \* per management request: uncommitted Partner writes
    preq,       \* per management request slot: operation, position and locals
    pgen        \* ids and secrets generated, management requests started

logVars == <<wlogs, txLog, nextLog, partners, txPar, now, hist, resps, overlaps, crashes>>

\* State beside the payment and delivery flows: the signature utilities,
\* the partners' secrets, the inbound partner webhook and direct calls on the
\* idempotency coordinator.
partVars == <<prows, ptx, preq, pgen>>

sideVars == <<sig, psec, pw, calls, partVars>>

vars == <<sig, psec, pw, calls, prows, ptx, preq, pgen, payments, txPay, nextPay, cache, lock, proc, reqs, done201, provCalls, degraded,
          wlogs, txLog, nextLog, partners, txPar, now, hist, resps, overlaps, crashes>>

\* ------------------------------------------------------------------ rows
NoPayment == [status |-> "none", key |-> NoKey, ppid |-> 0, reason |-> "none", meta |-> {}]
NoWrite == [status |-> "nowrite", key |-> NoKey, ppid |-> 0, reason |-> "none", meta |-> {}]
NoResp == [pid |-> 0, status |-> "none"]

\* provider_payment_id values: 0 is NULL, EmptyPpid is the empty string the
\* Stripe adapter returns with a FAILED result, i > 0 is the id of the
\* provider-side payment created for Payment i.
EmptyPpid == -1

PaymentStatus == {"pending", "processing", "succeeded", "failed", "canceled", "refunded"}

IsRow(r) == r.status \notin {"none", "nowrite"}

\* ------------------------------------------------------------------ WebhookLog and Partner rows
NoTime == -1        \* NULL next_retry_at / last_attempt_at

\* provider_event_id: <<provider, event type, provider_payment_id>>; NoEvent is NULL.
NoEvent == <<"none", "none", 0>>

NoLog == [dir |-> "none", status |-> "none", evid |-> NoEvent, et |-> "none", partner |-> 0,
          pay |-> 0, attempts |-> 0, next |-> NoTime, last |-> NoTime]
NoLogWrite == [NoLog EXCEPT !.status = "nowrite"]

IsLog(r) == r.status \notin {"none", "nowrite"}

NoPartner == [status |-> "none", events |-> {}, sent |-> 0]
NoParWrite == [status |-> "nowrite", events |-> {}, sent |-> 0]

\* Event types the provider adapters emit (EVENT_TYPE_MAP values);
\* payment.failed takes the branches payment.succeeded takes and is left out.
HookEventTypes == {"payment.succeeded", "payment.canceled", "payment.refunded",
                   "payment.disputed"}

\* provider_payment_id of the events received: none, or that of Payment 1.
HookPpids == {0, 1}

\* WebhookEventType: the event types a partner can subscribe to.
WebhookEventType == {"payment.created", "payment.succeeded", "payment.failed",
                     "payment.refunded", "adoption.created"}

\* Partner.events of the partners registered before the run.
SubscribedEvents == {"payment.succeeded", "payment.failed", "payment.refunded",
                     "adoption.created"}

\* HTTP outcomes of one POST to a partner: a 2xx status, a non-2xx status, or
\* 0 for a timeout / transport error.
Responses == {200, 500, 0}

Is2xx(r) == r >= 200 /\ r < 300

Idle == [kind |-> "idle", pc |-> "idle", key |-> NoKey, pid |-> 0, code |-> 0,
         res |-> "none", prior |-> {}, ins |-> FALSE, called |-> FALSE,
         held |-> FALSE, src |-> "none",
         tgt |-> 0, st |-> "none", cur |-> "none", ev |-> NoEvent, et |-> "none",
         dup |-> FALSE, wrote |-> FALSE, logged |-> FALSE, nposts |-> 0,
         todo |-> <<>>, due |-> <<>>, snap |-> [l \in LogIds |-> 0], lid |-> 0,
         http |-> 0, off |-> {},
         pobj |-> [a \in PartnerIds |-> "none"], signed |-> "none", made |-> {},
         mgr |-> "redis", inst |-> <<>>]

\* What request p's session reads: committed rows overlaid with its own writes.
PayView(p) ==
    [i \in PayIds |-> IF txPay[p][i].status # "nowrite" THEN txPay[p][i] ELSE payments[i]]

LogView(p) ==
    [l \in LogIds |-> IF txLog[p][l].status # "nowrite" THEN txLog[p][l] ELSE wlogs[l]]

ParView(p) ==
    [a \in PartnerIds |-> IF txPar[p][a].status # "nowrite" THEN txPar[p][a] ELSE partners[a]]

\* ------------------------------------------------------------------ Payment repository
\* Mutant for C2: the ledger lookup by key never finds the row.
GetByIdempotencyKey_NoMatch(p, k) == 0

\* PaymentRepository.get_by_idempotency_key: id of the visible row, 0 if none.
GetByIdempotencyKey(p, k) ==
    LET hit == {i \in PayIds : IsRow(PayView(p)[i]) /\ PayView(p)[i].key = k}
    IN IF hit = {} THEN 0 ELSE CHOOSE i \in hit : TRUE

\* unique(idempotency_key): a committed row already carries k.
KeyCommitted(k) ==
    k # NoKey /\ \E i \in PayIds : IsRow(payments[i]) /\ payments[i].key = k

\* unique(idempotency_key): another open transaction inserted k; the INSERT waits.
KeyInFlight(p, k) ==
    k # NoKey /\ \E q \in Procs \ {p} : \E i \in PayIds :
        IsRow(txPay[q][i]) /\ ~IsRow(payments[i]) /\ txPay[q][i].key = k

\* unique(provider_payment_id), NULL excepted.
PpidCommitted(i, v) ==
    v # 0 /\ \E j \in PayIds \ {i} : IsRow(payments[j]) /\ payments[j].ppid = v

PpidInFlight(p, i, v) ==
    v # 0 /\ \E q \in Procs \ {p} : \E j \in PayIds \ {i} :
        IsRow(txPay[q][j]) /\ txPay[q][j].ppid = v

\* Row lock: another open transaction has written row i.
RowLocked(p, i) == \E q \in Procs \ {p} : txPay[q][i].status # "nowrite"

\* The keys of the metadata map a create request carries; payment_metadata is
\* kept as the set of its keys.
RequestMetadata == {"order"}

\* PaymentRepository.create: the row as inserted.
NewPayment(k) ==
    [status |-> "pending", key |-> k, ppid |-> 0, reason |-> "none", meta |-> RequestMetadata]

\* PaymentRepository.update_status: unconditional UPDATE ... WHERE id = i; the
\* optional columns are written only when the argument is not None
\* (0 and "none" stand for None).
UpdateStatusRow(row, st, ppid, reason) ==
    [row EXCEPT !.status = st,
                !.ppid = IF ppid # 0 THEN ppid ELSE @,
                !.reason = IF reason # "none" THEN reason ELSE @]

\* ------------------------------------------------------------------ WebhookLog repository
MAX_ATTEMPTS == 5
RETRY_DELAYS_MINUTES == <<1, 5, 30, 120, 720>>

Min(a, b) == IF a < b THEN a ELSE b

\* A variant of NewIncoming that records no attempt.
NewIncoming_NoAttempt(e, pay, t) ==
    [dir |-> "incoming", status |-> "delivered", evid |-> e, et |-> e[2], partner |-> 0,
     pay |-> pay, attempts |-> 0, next |-> NoTime, last |-> t]

\* WebhookLogRepository.create_incoming: the row as inserted.
NewIncoming(e, pay, t) ==
    [dir |-> "incoming", status |-> "delivered", evid |-> e, et |-> e[2], partner |-> 0,
     pay |-> pay, attempts |-> 1, next |-> NoTime, last |-> t]

\* WebhookLogRepository.create_outgoing: the row as inserted.
NewOutgoing(et, a, pay) ==
    [dir |-> "outgoing", status |-> "pending", evid |-> NoEvent, et |-> et, partner |-> a,
     pay |-> pay, attempts |-> 0, next |-> NoTime, last |-> NoTime]

\* WebhookLogRepository.get_by_provider_event_id: id of the visible row, 0 if none.
GetByProviderEventId(p, e) ==
    LET hit == {l \in LogIds : IsLog(LogView(p)[l]) /\ LogView(p)[l].evid = e}
    IN IF hit = {} THEN 0 ELSE CHOOSE l \in hit : TRUE

\* unique(provider_event_id): a committed row already carries e.
EventCommitted(e) == \E l \in LogIds : IsLog(wlogs[l]) /\ wlogs[l].evid = e

\* A provider_event_id column without its unique index: no INSERT waits.
EventInFlight_NoIndex(p, e) == FALSE

\* unique(provider_event_id): another open transaction inserted e; the INSERT waits.
EventInFlight(p, e) ==
    \E q \in Procs \ {p} : \E l \in LogIds :
        IsLog(txLog[q][l]) /\ ~IsLog(wlogs[l]) /\ txLog[q][l].evid = e

\* Row locks held by other open transactions.
LogLocked(p, l) == \E q \in Procs \ {p} : txLog[q][l].status # "nowrite"

ParLocked(p, a) == \E q \in Procs \ {p} : txPar[q][a].status # "nowrite"

\* Mutant for C10: a delivery that does not count as an attempt.
MarkDelivered_NoIncrement(row, t) ==
    [row EXCEPT !.status = "delivered", !.last = t, !.next = NoTime]

\* A variant of MarkDelivered that leaves next_retry_at as it finds it.
MarkDelivered_KeepRetryTime(row, t) ==
    [row EXCEPT !.status = "delivered", !.attempts = @ + 1, !.last = t]

\* WebhookLogRepository.mark_delivered: UPDATE ... SET attempts = attempts + 1,
\* evaluated by the database on the current row.
MarkDelivered(row, t) ==
    [row EXCEPT !.status = "delivered", !.attempts = @ + 1, !.last = t, !.next = NoTime]

\* Mutant for C7: the delay is indexed by the new attempt count, one too far.
MarkFailed_DelayOffByOne(row, att, t) ==
    IF att + 1 >= MAX_ATTEMPTS
    THEN [row EXCEPT !.status = "failed", !.attempts = att + 1, !.last = t, !.next = NoTime]
    ELSE [row EXCEPT !.status = "retrying", !.attempts = att + 1, !.last = t,
                     !.next = t + RETRY_DELAYS_MINUTES[
                                 Min(att + 1, Len(RETRY_DELAYS_MINUTES) - 1) + 1]]

\* WebhookLogRepository.mark_failed: att is webhook.attempts of the object the
\* session holds for the row; the UPDATE writes values computed from it.
MarkFailed(row, att, t) ==
    LET new_attempts == att + 1
    IN IF new_attempts >= MAX_ATTEMPTS
       THEN [row EXCEPT !.status = "failed", !.attempts = new_attempts, !.last = t,
                        !.next = NoTime]
       ELSE [row EXCEPT !.status = "retrying", !.attempts = new_attempts, !.last = t,
                        !.next = t + RETRY_DELAYS_MINUTES[
                                    Min(new_attempts - 1, Len(RETRY_DELAYS_MINUTES) - 1) + 1]]

RECURSIVE SortByNext(_, _)
SortByNext(v, S) ==
    IF S = {} THEN <<>>
    ELSE LET m == CHOOSE l \in S : \A k \in S :
                      \/ v[l].next < v[k].next
                      \/ v[l].next = v[k].next /\ l <= k
         IN <<m>> \o SortByNext(v, S \ {m})

\* The default of get_pending_retries(limit).
RetryLimit == 50

\* WebhookLogRepository.get_pending_retries(limit): retrying rows that are
\* due, by next_retry_at, the first `limit` of them.
GetPendingRetriesLimit(p, limit) ==
    LET all == SortByNext(LogView(p), {l \in LogIds : /\ LogView(p)[l].status = "retrying"
                                                     /\ LogView(p)[l].next <= now})
    IN SubSeq(all, 1, Min(limit, Len(all)))

\* A variant of GetPendingRetries that also returns rows not yet due.
GetPendingRetries_NotYetDue(p) ==
    SortByNext(LogView(p), {l \in LogIds : LogView(p)[l].status = "retrying"})

\* get_pending_retries() as retry_pending_webhooks calls it.
GetPendingRetries(p) == GetPendingRetriesLimit(p, RetryLimit)

\* ------------------------------------------------------------------ Partner repository
RECURSIVE SeqOfSet(_)
SeqOfSet(S) ==
    IF S = {} THEN <<>>
    ELSE LET m == CHOOSE a \in S : \A b \in S : a <= b
         IN <<m>> \o SeqOfSet(S \ {m})

\* The Partner objects of request p's session after a query returned the
\* partners in S: an object already in the session's identity map keeps the
\* attributes it was loaded with, a new one gets the committed secret
\* ("none": not loaded so far).
LoadPartners(p, S) ==
    [a \in PartnerIds |-> IF a \in S /\ proc[p].pobj[a] = "none" THEN psec[a].secret
                         ELSE proc[p].pobj[a]]

\* A variant of ListByEvent without the status filter.
ListByEvent_AnyStatus(p, et) ==
    SeqOfSet({a \in PartnerIds : et \in ParView(p)[a].events})

\* PartnerRepository.list_by_event: active partners subscribed to et.
ListByEvent(p, et) ==
    SeqOfSet({a \in PartnerIds : /\ ParView(p)[a].status = "active"
                                 /\ et \in ParView(p)[a].events})

\* PartnerRepository.increment_webhooks_sent.
IncrementWebhooksSent(row) == [row EXCEPT !.sent = @ + 1]

\* ------------------------------------------------------------------ get_db
NoWrites == [i \in PayIds |-> NoWrite]

CommitPay(p) ==
    [i \in PayIds |-> IF txPay[p][i].status # "nowrite" THEN txPay[p][i] ELSE payments[i]]

NoLogWrites == [l \in LogIds |-> NoLogWrite]

CommitLog(p) ==
    [l \in LogIds |-> IF txLog[p][l].status # "nowrite" THEN txLog[p][l] ELSE wlogs[l]]

NoParWrites == [a \in PartnerIds |-> NoParWrite]

CommitPar(p) ==
    [a \in PartnerIds |-> IF txPar[p][a].status # "nowrite" THEN txPar[p][a] ELSE partners[a]]

\* ------------------------------------------------------------------ create_payment route
\* Outcomes of one shared-store call: FALSE it answers, TRUE it raises RedisError.
RedisErr == IF degraded THEN BOOLEAN ELSE {FALSE}

ProviderOutcomes == {"pending", "failed", "raise"}

\* PaymentService.create_payment: provider result status -> Payment status.
MapResultStatus(r) ==
    IF r = "failed" THEN "failed" ELSE IF r = "success" THEN "succeeded" ELSE "pending"

StartCreate(p, k) ==
    /\ proc[p].pc = "idle"
    /\ reqs < MaxReq
    /\ reqs' = reqs + 1
    /\ proc' = [proc EXCEPT ![p] =
            [Idle EXCEPT !.kind = "create", !.key = k,
                         !.pc = IF k # NoKey THEN "cache_get" ELSE "svc_insert",
                         !.prior = IF k # NoKey THEN done201[k] ELSE {}]]
    /\ UNCHANGED <<sideVars, payments, txPay, nextPay, cache, lock, done201, provCalls, degraded, logVars>>

\* InMemoryIdempotencyManager(): the instance
\* get_idempotency_manager_with_fallback returns when the shared store's
\* client cannot be built; _cache and _locks as far as the request's key goes.
NewManager == [cache |-> NoResp, locks |-> {}]

\* The instances request r has obtained, with a new one appended: each call
\* of get_idempotency_manager_with_fallback constructs its own.
Obtain(r) == Append(r.inst, NewManager)

\* routes/payments.py: the manager is obtained, then
\* cached = get_cached_response(key); with the shared store a RedisError
\* reads as None.
GetCachedResponse(p) ==
    /\ proc[p].kind = "create" /\ proc[p].pc = "cache_get"
    /\ \E err \in RedisErr :
        LET cached == IF proc[p].mgr = "memory" THEN Obtain(proc[p])[1].cache
                      ELSE IF err THEN NoResp ELSE cache[proc[p].key]
            r == IF proc[p].mgr = "memory" THEN [proc[p] EXCEPT !.inst = Obtain(proc[p])]
                 ELSE proc[p]
        IN proc' = [proc EXCEPT ![p] =
              IF cached # NoResp
              THEN [r EXCEPT !.pc = "commit", !.code = 201, !.pid = cached.pid,
                             !.res = cached.status, !.src = "cache"]
              ELSE [r EXCEPT !.pc = "lock_try"]]
    /\ UNCHANGED <<sideVars, payments, txPay, nextPay, cache, lock, reqs, done201, provCalls, degraded, logVars>>

\* IdempotencyManager.is_processing: SET NX EX 30; a RedisError reads as "not processing".
\* InMemoryIdempotencyManager.is_processing, on the instance the request
\* obtained before get_cached_response: True if the key is in _locks,
\* otherwise the key is added.
IsProcessing(p) ==
    /\ proc[p].kind = "create" /\ proc[p].pc = "lock_try"
    /\ \E err \in RedisErr :
        IF proc[p].mgr = "memory"
        THEN /\ proc' = [proc EXCEPT ![p] =
                    IF proc[p].key \in proc[p].inst[1].locks
                    THEN [@ EXCEPT !.pc = "rollback", !.code = 409]
                    ELSE [@ EXCEPT !.pc = "svc_lookup", !.held = TRUE,
                                   !.inst[1].locks = @ \cup {proc[p].key}]]
             /\ lock' = lock
        ELSE IF err
        THEN /\ proc' = [proc EXCEPT ![p].pc = "svc_lookup"]
             /\ lock' = lock
        ELSE IF lock[proc[p].key]
        THEN /\ proc' = [proc EXCEPT ![p].pc = "rollback", ![p].code = 409]
             /\ lock' = lock
        ELSE /\ proc' = [proc EXCEPT ![p].pc = "svc_lookup", ![p].held = TRUE]
             /\ lock' = [lock EXCEPT ![proc[p].key] = TRUE]
    /\ UNCHANGED <<sideVars, payments, txPay, nextPay, cache, reqs, done201, provCalls, degraded, logVars>>

\* The 30 s lease of the lock runs out.
LockExpire(k) ==
    /\ degraded
    /\ lock[k]
    /\ lock' = [lock EXCEPT ![k] = FALSE]
    /\ UNCHANGED <<sideVars, payments, txPay, nextPay, cache, proc, reqs, done201, provCalls, degraded, logVars>>

\* The 24 h TTL of a cached response runs out.
CacheExpire(k) ==
    /\ degraded
    /\ cache[k] # NoResp
    /\ cache' = [cache EXCEPT ![k] = NoResp]
    /\ UNCHANGED <<sideVars, payments, txPay, nextPay, lock, proc, reqs, done201, provCalls, degraded, logVars>>

\* PaymentService.create_payment: existing = repo.get_by_idempotency_key(key).
SvcLookup(p) ==
    /\ proc[p].kind = "create" /\ proc[p].pc = "svc_lookup"
    /\ LET e == GetByIdempotencyKey(p, proc[p].key)
       IN proc' = [proc EXCEPT ![p] =
              IF e # 0
              THEN [@ EXCEPT !.pc = "cache_put", !.pid = e, !.res = PayView(p)[e].status,
                             !.src = "ledger"]
              ELSE [@ EXCEPT !.pc = "svc_insert"]]
    /\ UNCHANGED <<sideVars, payments, txPay, nextPay, cache, lock, reqs, done201, provCalls, degraded, logVars>>

\* PaymentService.create_payment: payment = repo.create(...) (INSERT, flush).
\* A duplicate idempotency_key raises IntegrityError out of the service.
SvcInsert(p) ==
    /\ proc[p].kind = "create" /\ proc[p].pc = "svc_insert"
    /\ ~KeyInFlight(p, proc[p].key)
    /\ IF KeyCommitted(proc[p].key)
       THEN /\ proc' = [proc EXCEPT ![p].pc = "exc_release"]
            /\ UNCHANGED <<txPay, nextPay>>
       ELSE /\ nextPay <= MaxPay
            /\ txPay' = [txPay EXCEPT ![p][nextPay] = NewPayment(proc[p].key)]
            /\ nextPay' = nextPay + 1
            /\ proc' = [proc EXCEPT ![p].pc = "svc_provider", ![p].pid = nextPay,
                                    ![p].ins = TRUE]
    /\ UNCHANGED <<sideVars, payments, cache, lock, reqs, done201, provCalls, degraded, logVars>>

\* PaymentService.create_payment: result = provider.create_payment(...).
SvcProvider(p) ==
    /\ proc[p].kind = "create" /\ proc[p].pc = "svc_provider"
    /\ \E r \in ProviderOutcomes :
        proc' = [proc EXCEPT ![p].pc = IF r = "raise" THEN "svc_fail" ELSE "svc_update",
                             ![p].res = r, ![p].called = TRUE]
    /\ provCalls' = [provCalls EXCEPT ![proc[p].key] = @ + 1]
    /\ UNCHANGED <<sideVars, payments, txPay, nextPay, cache, lock, reqs, done201, degraded, logVars>>

\* PaymentService.create_payment: repo.update_status(payment.id, status,
\* provider_payment_id, checkout_url, failure_reason) after the provider answered.
SvcUpdate(p) ==
    /\ proc[p].kind = "create" /\ proc[p].pc = "svc_update"
    /\ LET i == proc[p].pid
           st == MapResultStatus(proc[p].res)
           v == IF proc[p].res = "failed" THEN EmptyPpid ELSE i
           why == IF proc[p].res = "failed" THEN "provider" ELSE "none"
       IN /\ ~PpidInFlight(p, i, v)
          /\ IF PpidCommitted(i, v)
             THEN /\ proc' = [proc EXCEPT ![p].pc = "exc_release"]
                  /\ txPay' = txPay
             ELSE /\ txPay' = [txPay EXCEPT ![p][i] = UpdateStatusRow(PayView(p)[i], st, v, why)]
                  /\ proc' = [proc EXCEPT ![p].pc = "cache_put", ![p].res = st,
                                          ![p].src = "new"]
    /\ UNCHANGED <<sideVars, payments, nextPay, cache, lock, reqs, done201, provCalls, degraded, logVars>>

\* PaymentService.create_payment, except Exception: mark the row failed, raise
\* PaymentProviderError.
SvcFail(p) ==
    /\ proc[p].kind = "create" /\ proc[p].pc = "svc_fail"
    /\ txPay' = [txPay EXCEPT ![p][proc[p].pid] =
                    UpdateStatusRow(PayView(p)[proc[p].pid], "failed", 0, "error")]
    /\ proc' = [proc EXCEPT ![p].pc = "ppe_release"]
    /\ UNCHANGED <<sideVars, payments, nextPay, cache, lock, reqs, done201, provCalls, degraded, logVars>>

\* routes/payments.py: the manager is obtained again, then
\* cache_response(key, result), when a key was sent.
CacheResponse(p) ==
    /\ proc[p].kind = "create" /\ proc[p].pc = "cache_put"
    /\ IF proc[p].key = NoKey
       THEN /\ cache' = cache
            /\ proc' = [proc EXCEPT ![p].pc = "commit", ![p].code = 201]
       ELSE IF proc[p].mgr = "memory"
       THEN /\ cache' = cache
            /\ proc' = [proc EXCEPT ![p].pc = "release",
                                    ![p].inst =
                                        [Obtain(proc[p]) EXCEPT ![Len(proc[p].inst) + 1].cache =
                                            [pid |-> proc[p].pid, status |-> proc[p].res]]]
       ELSE /\ \E err \in RedisErr :
                cache' = IF err THEN cache
                         ELSE [cache EXCEPT ![proc[p].key] =
                                  [pid |-> proc[p].pid, status |-> proc[p].res]]
            /\ proc' = [proc EXCEPT ![p].pc = "release"]
    /\ UNCHANGED <<sideVars, payments, txPay, nextPay, lock, reqs, done201, provCalls, degraded, logVars>>

\* A release_lock that leaves the lock key in place.
ReleaseLockKey_Keep(k, err) == lock

\* IdempotencyManager.release_lock: DEL of the lock key, whoever set it.
ReleaseLockKey(k, err) ==
    IF k = NoKey \/ err THEN lock ELSE [lock EXCEPT ![k] = FALSE]

\* InMemoryIdempotencyManager.release_lock on instance i of request r:
\* _locks.discard(key).
DiscardLock(r, i) == [r.inst EXCEPT ![i].locks = @ \ {r.key}]

\* The shared lock table after request p's release_lock: the in-process
\* manager does not touch it.
ReleasedLock(p, err) ==
    IF proc[p].mgr = "memory" THEN lock ELSE ReleaseLockKey(proc[p].key, err)

\* routes/payments.py: release_lock(key) on the success path, then return 201.
ReleaseOk(p) ==
    /\ proc[p].kind = "create" /\ proc[p].pc = "release"
    /\ \E err \in RedisErr : lock' = ReleasedLock(p, err)
    /\ proc' = [proc EXCEPT ![p].pc = "commit", ![p].code = 201,
                            ![p].inst = IF proc[p].mgr = "memory"
                                        THEN DiscardLock(proc[p], Len(proc[p].inst))
                                        ELSE @]
    /\ UNCHANGED <<sideVars, payments, txPay, nextPay, cache, reqs, done201, provCalls, degraded, logVars>>

\* routes/payments.py, except PaymentProviderError: release_lock, HTTP 502.
ReleasePpe(p) ==
    /\ proc[p].kind = "create" /\ proc[p].pc = "ppe_release"
    /\ \E err \in RedisErr : lock' = ReleasedLock(p, err)
    /\ proc' = [proc EXCEPT ![p].pc = "rollback", ![p].code = 502,
                            ![p].inst = IF proc[p].mgr = "memory" /\ proc[p].key # NoKey
                                        THEN DiscardLock([proc[p] EXCEPT !.inst = Obtain(proc[p])],
                                                         Len(proc[p].inst) + 1)
                                        ELSE @]
    /\ UNCHANGED <<sideVars, payments, txPay, nextPay, cache, reqs, done201, provCalls, degraded, logVars>>

\* routes/payments.py, except Exception: release_lock, re-raise (HTTP 500).
ReleaseExc(p) ==
    /\ proc[p].kind = "create" /\ proc[p].pc = "exc_release"
    /\ \E err \in RedisErr : lock' = ReleasedLock(p, err)
    /\ proc' = [proc EXCEPT ![p].pc = "rollback", ![p].code = 500,
                            ![p].inst = IF proc[p].mgr = "memory" /\ proc[p].key # NoKey
                                        THEN DiscardLock([proc[p] EXCEPT !.inst = Obtain(proc[p])],
                                                         Len(proc[p].inst) + 1)
                                        ELSE @]
    /\ UNCHANGED <<sideVars, payments, txPay, nextPay, cache, reqs, done201, provCalls, degraded, logVars>>

\* get_db: the route returned; session.commit().
DbCommit(p) ==
    /\ proc[p].pc = "commit"
    /\ payments' = CommitPay(p)
    /\ txPay' = [txPay EXCEPT ![p] = NoWrites]
    /\ proc' = [proc EXCEPT ![p].pc = "done"]
    /\ done201' = IF /\ proc[p].kind = "create" /\ proc[p].key # NoKey
                     /\ proc[p].code = 201 /\ IsRow(CommitPay(p)[proc[p].pid])
                  THEN [done201 EXCEPT ![proc[p].key] = @ \cup {proc[p].pid}]
                  ELSE done201
    /\ wlogs' = CommitLog(p)
    /\ txLog' = [txLog EXCEPT ![p] = NoLogWrites]
    /\ partners' = CommitPar(p)
    /\ txPar' = [txPar EXCEPT ![p] = NoParWrites]
    /\ UNCHANGED <<sideVars, nextPay, cache, lock, reqs, provCalls, degraded,
                   nextLog, now, hist, resps, overlaps, crashes>>

\* get_db: an exception left the route; session.rollback().
DbRollback(p) ==
    /\ proc[p].pc = "rollback"
    /\ txPay' = [txPay EXCEPT ![p] = NoWrites]
    /\ txLog' = [txLog EXCEPT ![p] = NoLogWrites]
    /\ txPar' = [txPar EXCEPT ![p] = NoParWrites]
    /\ proc' = [proc EXCEPT ![p].pc = "done"]
    /\ UNCHANGED <<sideVars, payments, wlogs, partners, nextPay, cache, lock, reqs, done201, provCalls,
                   degraded, nextLog, now, hist, resps, overlaps, crashes>>

\* The response has been sent; the slot serves the next request.
Finish(p) ==
    /\ proc[p].pc = "done"
    /\ proc' = [proc EXCEPT ![p] = Idle]
    /\ UNCHANGED <<sideVars, payments, txPay, nextPay, cache, lock, reqs, done201, provCalls, degraded, logVars>>

\* ------------------------------------------------------------------ PaymentService._to_response
\* PaymentResponse(..., metadata=payment.metadata or {}, ...): the JSON column
\* of Payment is payment_metadata; payment.metadata is the MetaData object of
\* the declarative base class, which is truthy and is not a mapping, so the
\* dict field of PaymentResponse rejects it: building the response raises
\* ValidationError for every Payment row.
ToResponse(row) == IF IsRow(row) THEN "ValidationError" ELSE "none"

\* PaymentService.refund_payment: metadata={**(payment.metadata or {}), ...}
\* unpacks the same object, which raises TypeError inside the try block.
RefundMetadata(row) == IF IsRow(row) THEN "TypeError" ELSE "none"

\* ------------------------------------------------------------------ PaymentService.update_payment_status
\* valid_transitions: the statuses reachable from status c.
ValidTransitions(c) ==
    IF c = "pending" THEN {"processing", "succeeded", "failed", "canceled"}
    ELSE IF c = "processing" THEN {"succeeded", "failed"}
    ELSE IF c = "succeeded" THEN {"refunded"}
    ELSE {}

\* A caller asks for payment i to be moved to status st.
StartUpdate(p, i, st) ==
    /\ proc[p].pc = "idle"
    /\ reqs < MaxSvcReq
    /\ reqs' = reqs + 1
    /\ proc' = [proc EXCEPT ![p] =
            [Idle EXCEPT !.kind = "update", !.pc = "update_read", !.tgt = i, !.st = st]]
    /\ UNCHANGED <<sideVars, payments, txPay, nextPay, cache, lock, done201, provCalls, degraded, logVars>>

\* payment = repo.get_by_id(payment_id); PaymentNotFoundError; the transition
\* check against valid_transitions; InvalidPaymentStateError.
UpdateRead(p) ==
    /\ proc[p].kind = "update" /\ proc[p].pc = "update_read"
    /\ LET row == PayView(p)[proc[p].tgt]
       IN proc' = [proc EXCEPT ![p] =
              IF ~IsRow(row)
              THEN [@ EXCEPT !.pc = "rollback", !.code = 404, !.res = "PaymentNotFound"]
              ELSE IF proc[p].st \notin ValidTransitions(row.status)
              THEN [@ EXCEPT !.pc = "rollback", !.code = 400, !.cur = row.status,
                             !.res = "InvalidPaymentState"]
              ELSE [@ EXCEPT !.pc = "update_write", !.cur = row.status]]
    /\ UNCHANGED <<sideVars, payments, txPay, nextPay, cache, lock, reqs, done201, provCalls, degraded,
                   logVars>>

\* What the caller gets after the UPDATE was flushed: the response, or the
\* exception _to_response raised, which leaves through the session's except
\* branch.
AfterWrite(r, row, st) ==
    IF ToResponse(row) = "ok"
    THEN [r EXCEPT !.pc = "commit", !.code = 200, !.res = st, !.wrote = TRUE]
    ELSE [r EXCEPT !.pc = "rollback", !.code = 500, !.res = ToResponse(row), !.wrote = TRUE]

\* updated = repo.update_status(payment_id, status, failure_reason, metadata);
\* return self._to_response(updated).
UpdateWrite(p) ==
    /\ proc[p].kind = "update" /\ proc[p].pc = "update_write"
    /\ ~RowLocked(p, proc[p].tgt)
    /\ LET row == UpdateStatusRow(PayView(p)[proc[p].tgt], proc[p].st, 0, "none")
       IN /\ txPay' = [txPay EXCEPT ![p][proc[p].tgt] = row]
          /\ proc' = [proc EXCEPT ![p] = AfterWrite(@, row, proc[p].st)]
    /\ UNCHANGED <<sideVars, payments, nextPay, cache, lock, reqs, done201, provCalls, degraded, logVars>>

\* ------------------------------------------------------------------ cancel_payment route
StartCancel(p, i) ==
    /\ proc[p].pc = "idle"
    /\ reqs < MaxSvcReq
    /\ reqs' = reqs + 1
    /\ proc' = [proc EXCEPT ![p] =
            [Idle EXCEPT !.kind = "cancel", !.pc = "cancel_read", !.tgt = i]]
    /\ UNCHANGED <<sideVars, payments, txPay, nextPay, cache, lock, done201, provCalls, degraded, logVars>>

\* PaymentService.cancel_payment: get_by_id; 404 if missing, 400 unless pending.
CancelRead(p) ==
    /\ proc[p].kind = "cancel" /\ proc[p].pc = "cancel_read"
    /\ LET row == PayView(p)[proc[p].tgt]
       IN proc' = [proc EXCEPT ![p] =
              IF ~IsRow(row)
              THEN [@ EXCEPT !.pc = "rollback", !.code = 404, !.res = "PaymentNotFound"]
              ELSE IF row.status # "pending"
              THEN [@ EXCEPT !.pc = "rollback", !.code = 400, !.cur = row.status,
                             !.res = "InvalidPaymentState"]
              ELSE [@ EXCEPT !.cur = row.status,
                             !.pc = IF row.ppid > 0 THEN "cancel_provider"
                                    ELSE "cancel_update"]]
    /\ UNCHANGED <<sideVars, payments, txPay, nextPay, cache, lock, reqs, done201, provCalls, degraded,
                   logVars>>

\* provider.cancel_payment(provider_payment_id); a failure is logged and ignored.
CancelProvider(p) ==
    /\ proc[p].kind = "cancel" /\ proc[p].pc = "cancel_provider"
    /\ proc' = [proc EXCEPT ![p].pc = "cancel_update"]
    /\ UNCHANGED <<sideVars, payments, txPay, nextPay, cache, lock, reqs, done201, provCalls, degraded,
                   logVars>>

\* repo.update_status(payment_id, CANCELED, failure_reason="Canceled by user");
\* return self._to_response(updated).  The route catches PaymentNotFoundError
\* and InvalidPaymentStateError only.
CancelUpdate(p) ==
    /\ proc[p].kind = "cancel" /\ proc[p].pc = "cancel_update"
    /\ ~RowLocked(p, proc[p].tgt)
    /\ LET row == UpdateStatusRow(PayView(p)[proc[p].tgt], "canceled", 0, "canceled")
       IN /\ txPay' = [txPay EXCEPT ![p][proc[p].tgt] = row]
          /\ proc' = [proc EXCEPT ![p] = AfterWrite(@, row, "canceled")]
    /\ UNCHANGED <<sideVars, payments, nextPay, cache, lock, reqs, done201, provCalls, degraded, logVars>>

\* ------------------------------------------------------------------ refund_payment route
StartRefund(p, i) ==
    /\ proc[p].pc = "idle"
    /\ reqs < MaxSvcReq
    /\ reqs' = reqs + 1
    /\ proc' = [proc EXCEPT ![p] =
            [Idle EXCEPT !.kind = "refund", !.pc = "refund_read", !.tgt = i]]
    /\ UNCHANGED <<sideVars, payments, txPay, nextPay, cache, lock, done201, provCalls, degraded, logVars>>

\* A variant of RefundRead without the provider_payment_id check.
RefundRead_NoPpidCheck(p) ==
    /\ proc[p].kind = "refund" /\ proc[p].pc = "refund_read"
    /\ LET row == PayView(p)[proc[p].tgt]
       IN proc' = [proc EXCEPT ![p] =
              IF ~IsRow(row)
              THEN [@ EXCEPT !.pc = "rollback", !.code = 404, !.res = "PaymentNotFound"]
              ELSE IF row.status # "succeeded"
              THEN [@ EXCEPT !.pc = "rollback", !.code = 400, !.cur = row.status,
                             !.res = "InvalidPaymentState"]
              ELSE [@ EXCEPT !.pc = "refund_provider", !.cur = row.status]]
    /\ UNCHANGED <<sideVars, payments, txPay, nextPay, cache, lock, reqs, done201, provCalls, degraded,
                   logVars>>

\* PaymentService.refund_payment: get_by_id; 404 if missing, 400 unless
\* succeeded, 502 without a provider_payment_id.
RefundRead(p) ==
    /\ proc[p].kind = "refund" /\ proc[p].pc = "refund_read"
    /\ LET row == PayView(p)[proc[p].tgt]
       IN proc' = [proc EXCEPT ![p] =
              IF ~IsRow(row)
              THEN [@ EXCEPT !.pc = "rollback", !.code = 404, !.res = "PaymentNotFound"]
              ELSE IF row.status # "succeeded"
              THEN [@ EXCEPT !.pc = "rollback", !.code = 400, !.cur = row.status,
                             !.res = "InvalidPaymentState"]
              ELSE IF row.ppid <= 0
              THEN [@ EXCEPT !.pc = "rollback", !.code = 502, !.cur = row.status,
                             !.res = "PaymentProviderError"]
              ELSE [@ EXCEPT !.pc = "refund_provider", !.cur = row.status]]
    /\ UNCHANGED <<sideVars, payments, txPay, nextPay, cache, lock, reqs, done201, provCalls, degraded,
                   logVars>>

RefundOutcomes == {"success", "failed", "raise"}

\* refund_result = provider.refund_payment(...); FAILED or an exception: 502.
\* On SUCCESS the metadata argument of repo.update_status is built first; it
\* raises, the except branch turns that into PaymentProviderError (502), and
\* update_status is not reached.
RefundProvider(p) ==
    /\ proc[p].kind = "refund" /\ proc[p].pc = "refund_provider"
    /\ \E r \in RefundOutcomes :
        proc' = [proc EXCEPT ![p] =
            [@ EXCEPT !.pc = "rollback", !.code = 502, !.res = "PaymentProviderError",
                      !.called = TRUE, !.st = r,
                      !.src = IF r = "success"
                              THEN RefundMetadata(PayView(p)[proc[p].tgt]) ELSE r]]
    /\ UNCHANGED <<sideVars, payments, txPay, nextPay, cache, lock, reqs, done201, provCalls, degraded,
                   logVars>>

\* ------------------------------------------------------------------ inbound provider webhooks
Providers == {"stripe", "mock"}

\* WebhookService._process_payment_event: status_map ("none": the type is not mapped).
StatusMap(et) ==
    IF et = "payment.succeeded" THEN "succeeded"
    ELSE IF et = "payment.failed" THEN "failed"
    ELSE IF et = "payment.canceled" THEN "canceled"
    ELSE IF et = "payment.refunded" THEN "refunded"
    ELSE "none"

\* PaymentRepository.get_by_provider_id, then get_by_id(metadata.payment_id):
\* the event of provider payment v carries the id of Payment v in its
\* metadata.  Id of the visible row, 0 if none.
FindPayment(p, v) ==
    IF v = 0 THEN 0
    ELSE IF \E i \in PayIds : IsRow(PayView(p)[i]) /\ PayView(p)[i].ppid = v
    THEN CHOOSE i \in PayIds : IsRow(PayView(p)[i]) /\ PayView(p)[i].ppid = v
    ELSE IF IsRow(PayView(p)[v]) THEN v
    ELSE 0

\* POST /webhooks/stripe or /webhooks/mock with event <<et, v>>;
\* provider.construct_webhook_event verifies the signature (400 if invalid).
StartHook(p, prov, et, v, valid) ==
    /\ proc[p].pc = "idle"
    /\ reqs < MaxSvcReq
    /\ reqs' = reqs + 1
    /\ proc' = [proc EXCEPT ![p] =
            IF valid
            THEN [Idle EXCEPT !.kind = "hook", !.ev = <<prov, et, v>>, !.et = et,
                              !.dup = EventCommitted(<<prov, et, v>>),
                              !.pc = IF prov = "stripe" THEN "hook_dedup" ELSE "hook_find"]
            ELSE [Idle EXCEPT !.kind = "hook", !.pc = "rollback", !.code = 400,
                              !.res = "WebhookVerificationError"]]
    /\ UNCHANGED <<sideVars, payments, txPay, nextPay, cache, lock, done201, provCalls, degraded, logVars>>

\* process_stripe_webhook: existing = webhook_repo.get_by_provider_event_id(...).
HookDedup(p) ==
    /\ proc[p].kind = "hook" /\ proc[p].pc = "hook_dedup"
    /\ proc' = [proc EXCEPT ![p] =
          IF GetByProviderEventId(p, proc[p].ev) # 0
          THEN [@ EXCEPT !.pc = "commit", !.code = 200, !.res = "already_processed"]
          ELSE [@ EXCEPT !.pc = "hook_find"]]
    /\ UNCHANGED <<sideVars, payments, txPay, nextPay, cache, lock, reqs, done201, provCalls, degraded,
                   logVars>>

\* _process_payment_event: look the payment up and compare its status with
\* the status the event type maps to.
HookFind(p) ==
    /\ proc[p].kind = "hook" /\ proc[p].pc = "hook_find"
    /\ LET i == FindPayment(p, proc[p].ev[3])
           new == StatusMap(proc[p].et)
       IN proc' = [proc EXCEPT ![p] =
              IF i = 0 THEN [@ EXCEPT !.pc = "hook_log"]
              ELSE IF new # "none" /\ PayView(p)[i].status # new
              THEN [@ EXCEPT !.pc = "hook_apply", !.tgt = i, !.st = new,
                             !.cur = PayView(p)[i].status]
              ELSE [@ EXCEPT !.pc = "hook_log", !.tgt = i, !.cur = PayView(p)[i].status]]
    /\ UNCHANGED <<sideVars, payments, txPay, nextPay, cache, lock, reqs, done201, provCalls, degraded,
                   logVars>>

\* _process_payment_event: payment_repo.update_status(payment.id, new_status).
HookApply(p) ==
    /\ proc[p].kind = "hook" /\ proc[p].pc = "hook_apply"
    /\ ~RowLocked(p, proc[p].tgt)
    /\ txPay' = [txPay EXCEPT ![p][proc[p].tgt] =
                    UpdateStatusRow(PayView(p)[proc[p].tgt], proc[p].st, 0, "none")]
    /\ proc' = [proc EXCEPT ![p].pc = "hook_log", ![p].wrote = TRUE]
    /\ UNCHANGED <<sideVars, payments, nextPay, cache, lock, reqs, done201, provCalls, degraded, logVars>>

\* webhook_repo.create_incoming(...) (INSERT, flush).  A duplicate
\* provider_event_id raises IntegrityError: HTTP 500 on either route.
HookLog(p) ==
    /\ proc[p].kind = "hook" /\ proc[p].pc = "hook_log"
    /\ ~EventInFlight(p, proc[p].ev)
    /\ IF EventCommitted(proc[p].ev)
       THEN /\ proc' = [proc EXCEPT ![p].pc = "rollback", ![p].code = 500,
                                    ![p].res = "IntegrityError"]
            /\ UNCHANGED <<txLog, nextLog>>
       ELSE /\ nextLog <= MaxLog
            /\ txLog' = [txLog EXCEPT ![p][nextLog] =
                            NewIncoming(proc[p].ev, proc[p].tgt, now)]
            /\ nextLog' = nextLog + 1
            /\ proc' = [proc EXCEPT ![p] =
                  IF proc[p].tgt # 0
                  THEN [@ EXCEPT !.pc = "hook_dispatch", !.logged = TRUE]
                  ELSE [@ EXCEPT !.pc = "commit", !.code = 200, !.res = "processed",
                                 !.logged = TRUE]]
    /\ UNCHANGED <<sideVars, payments, txPay, nextPay, cache, lock, reqs, done201, provCalls, degraded,
                   wlogs, partners, txPar, now, hist, resps, overlaps, crashes>>

\* _dispatch_to_partners: WebhookEventType(event_type) or return;
\* partners = partner_repo.list_by_event(event_type); none: return.
HookDispatch(p) ==
    /\ proc[p].kind = "hook" /\ proc[p].pc = "hook_dispatch"
    /\ LET ps == IF proc[p].et \in WebhookEventType THEN ListByEvent(p, proc[p].et)
                 ELSE <<>>
       IN proc' = [proc EXCEPT ![p] =
              IF ps = <<>>
              THEN [@ EXCEPT !.pc = "commit", !.code = 200, !.res = "processed"]
              ELSE [@ EXCEPT !.pc = "send_create", !.todo = ps,
                             !.pobj = LoadPartners(p, {ps[j] : j \in 1..Len(ps)})]]
    /\ UNCHANGED <<sideVars, payments, txPay, nextPay, cache, lock, reqs, done201, provCalls, degraded,
                   logVars>>

\* ------------------------------------------------------------------ WebhookService.send_webhook_to_partner
\* A variant of NextSend that raises the delivery failure to the caller.
NextSend_Raise(r) ==
    [r EXCEPT !.todo = <<>>, !.pc = "rollback", !.code = 500, !.res = "DeliveryError"]

\* After the last partner of the loop the route returns 200.
NextSend(r) ==
    IF Len(r.todo) > 1
    THEN [r EXCEPT !.todo = Tail(@), !.pc = "send_create"]
    ELSE [r EXCEPT !.todo = <<>>, !.pc = "commit", !.code = 200, !.res = "processed"]

\* signature = create_webhook_signature_header(payload_bytes, partner.secret)
\* with the Partner object of the list; then
\* webhook_log = webhook_repo.create_outgoing(...) (INSERT, flush), before the POST.
SendCreate(p) ==
    /\ proc[p].pc = "send_create"
    /\ nextLog <= MaxLog
    /\ txLog' = [txLog EXCEPT ![p][nextLog] =
                    NewOutgoing(proc[p].et, Head(proc[p].todo), proc[p].tgt)]
    /\ nextLog' = nextLog + 1
    /\ hist' = [hist EXCEPT ![nextLog] = Append(@, "pending")]
    /\ proc' = [proc EXCEPT ![p].pc = "send_post", ![p].lid = nextLog,
                            ![p].snap[nextLog] = 0,
                            ![p].signed = proc[p].pobj[Head(proc[p].todo)],
                            ![p].made = @ \cup {nextLog}]
    /\ UNCHANGED <<sideVars, payments, txPay, nextPay, cache, lock, reqs, done201, provCalls, degraded,
                   wlogs, partners, txPar, now, resps, overlaps, crashes>>

\* client.post(partner.webhook_url, ...): the partner answers, or the POST times out.
SendPost(p) ==
    /\ proc[p].pc = "send_post"
    /\ \E r \in Responses :
        /\ proc' = [proc EXCEPT ![p].pc = "send_mark", ![p].http = r, ![p].nposts = @ + 1]
        /\ resps' = [resps EXCEPT ![proc[p].lid] = Append(@, r)]
    /\ UNCHANGED <<sideVars, payments, txPay, nextPay, cache, lock, reqs, done201, provCalls, degraded,
                   wlogs, txLog, nextLog, partners, txPar, now, hist, overlaps,
                   crashes>>

\* 2xx: webhook_repo.mark_delivered; otherwise (status, timeout, exception):
\* webhook_repo.mark_failed.
SendMark(p) ==
    /\ proc[p].pc = "send_mark"
    /\ LET l == proc[p].lid
           row == IF Is2xx(proc[p].http)
                  THEN MarkDelivered(LogView(p)[l], now)
                  ELSE MarkFailed(LogView(p)[l], proc[p].snap[l], now)
       IN /\ ~LogLocked(p, l)
          /\ txLog' = [txLog EXCEPT ![p][l] = row]
          /\ hist' = [hist EXCEPT ![l] = Append(@, row.status)]
          /\ proc' = [proc EXCEPT ![p] =
                IF Is2xx(proc[p].http) THEN [@ EXCEPT !.pc = "send_incr"] ELSE NextSend(@)]
    /\ UNCHANGED <<sideVars, payments, txPay, nextPay, cache, lock, reqs, done201, provCalls, degraded,
                   wlogs, nextLog, partners, txPar, now, resps, overlaps, crashes>>

\* partner_repo.increment_webhooks_sent(partner.id) after a delivery.
SendIncr(p) ==
    /\ proc[p].pc = "send_incr"
    /\ LET a == Head(proc[p].todo)
       IN /\ ~ParLocked(p, a)
          /\ txPar' = [txPar EXCEPT ![p][a] = IncrementWebhooksSent(ParView(p)[a])]
    /\ proc' = [proc EXCEPT ![p] = NextSend(@)]
    /\ UNCHANGED <<sideVars, payments, txPay, nextPay, cache, lock, reqs, done201, provCalls, degraded,
                   wlogs, txLog, nextLog, partners, now, hist, resps, overlaps,
                   crashes>>

\* ------------------------------------------------------------------ deactivate_partner route
\* The partners that are stored as inactive; a request keeps, in off, the
\* ones that were inactive when it started.
Inactive == {a \in PartnerIds : partners[a].status = "inactive"}

\* POST /partners/{a}/deactivate for a partner stored as active.
StartDeactivate(p, a) ==
    /\ proc[p].pc = "idle"
    /\ partners[a].status = "active"
    /\ \A q \in Procs : ~(proc[q].kind = "deactivate" /\ proc[q].tgt = a)
    /\ proc' = [proc EXCEPT ![p] =
            [Idle EXCEPT !.kind = "deactivate", !.pc = "deact_read", !.tgt = a]]
    /\ UNCHANGED <<sideVars, payments, txPay, nextPay, cache, lock, reqs, done201, provCalls,
                   degraded, logVars>>

\* PartnerService.deactivate_partner: partner = repo.get_by_id(partner_id);
\* PartnerNotFoundError (404) if there is none.
DeactRead(p) ==
    /\ proc[p].kind = "deactivate" /\ proc[p].pc = "deact_read"
    /\ proc' = [proc EXCEPT ![p] =
          IF ParView(p)[proc[p].tgt].status \in {"none", "nowrite"}
          THEN [@ EXCEPT !.pc = "rollback", !.code = 404, !.res = "PartnerNotFound"]
          ELSE [@ EXCEPT !.pc = "deact_write"]]
    /\ UNCHANGED <<sideVars, payments, txPay, nextPay, cache, lock, reqs, done201, provCalls,
                   degraded, logVars>>

\* repo.update(partner_id, status=INACTIVE) (UPDATE, flush); the response is
\* built and the route returns.
DeactWrite(p) ==
    /\ proc[p].kind = "deactivate" /\ proc[p].pc = "deact_write"
    /\ ~ParLocked(p, proc[p].tgt)
    /\ txPar' = [txPar EXCEPT ![p][proc[p].tgt] =
                    [ParView(p)[proc[p].tgt] EXCEPT !.status = "inactive"]]
    /\ proc' = [proc EXCEPT ![p].pc = "commit", ![p].code = 200, ![p].res = "inactive"]
    /\ UNCHANGED <<sideVars, payments, txPay, nextPay, cache, lock, reqs, done201, provCalls,
                   degraded, wlogs, txLog, nextLog, partners, now, hist, resps, overlaps,
                   crashes>>

\* ------------------------------------------------------------------ notify_adoption route
StartNotify(p) ==
    /\ proc[p].pc = "idle"
    /\ reqs < MaxNotify
    /\ reqs' = reqs + 1
    /\ proc' = [proc EXCEPT ![p] =
            [Idle EXCEPT !.kind = "notify", !.pc = "notify_list", !.et = "adoption.created",
                         !.off = Inactive]]
    /\ UNCHANGED <<sideVars, payments, txPay, nextPay, cache, lock, done201, provCalls, degraded, logVars>>

\* partners = partner_service.list_partners_for_event(ADOPTION_CREATED); none: return.
NotifyList(p) ==
    /\ proc[p].kind = "notify" /\ proc[p].pc = "notify_list"
    /\ LET ps == ListByEvent(p, proc[p].et)
       IN proc' = [proc EXCEPT ![p] =
              IF ps = <<>>
              THEN [@ EXCEPT !.pc = "commit", !.code = 200, !.res = "processed"]
              ELSE [@ EXCEPT !.pc = "send_create", !.todo = ps,
                             !.pobj = LoadPartners(p, {ps[j] : j \in 1..Len(ps)})]]
    /\ UNCHANGED <<sideVars, payments, txPay, nextPay, cache, lock, reqs, done201, provCalls, degraded,
                   logVars>>

\* ------------------------------------------------------------------ WebhookService.retry_pending_webhooks
SweepActive(q) == proc[q].kind = "sweep" /\ proc[q].pc \notin {"idle", "done"}

\* The external scheduler invokes a sweep in a session of its own (get_db_context).
StartSweep(p) ==
    /\ proc[p].pc = "idle"
    /\ proc' = [proc EXCEPT ![p] = [Idle EXCEPT !.kind = "sweep", !.pc = "sweep_fetch",
                                                 !.off = Inactive]]
    /\ IF \E q \in Procs \ {p} : SweepActive(q)
       THEN overlaps < MaxOverlap /\ overlaps' = overlaps + 1
       ELSE overlaps' = overlaps
    /\ UNCHANGED <<sideVars, payments, txPay, nextPay, cache, lock, reqs, done201, provCalls, degraded,
                   wlogs, txLog, nextLog, partners, txPar, now, hist, resps, crashes>>

NextRetry(r) ==
    IF Len(r.due) > 1
    THEN [r EXCEPT !.due = Tail(@), !.pc = "retry_post"]
    ELSE [r EXCEPT !.due = <<>>, !.pc = "commit", !.code = 200, !.res = "processed"]

\* pending = webhook_repo.get_pending_retries(): the rows are loaded into the
\* session; their attributes stay as loaded for the rest of the sweep.
SweepFetch(p) ==
    /\ proc[p].kind = "sweep" /\ proc[p].pc = "sweep_fetch"
    /\ LET pending == GetPendingRetries(p)
       IN proc' = [proc EXCEPT ![p] =
              IF pending = <<>>
              THEN [@ EXCEPT !.pc = "commit", !.code = 200, !.res = "processed"]
              ELSE [@ EXCEPT !.pc = "retry_post", !.due = pending,
                             !.snap = [l \in LogIds |-> LogView(p)[l].attempts]]]
    /\ UNCHANGED <<sideVars, payments, txPay, nextPay, cache, lock, reqs, done201, provCalls, degraded,
                   logVars>>

\* partner = partner_repo.get_by_id(webhook.partner_id); _retry_webhook signs
\* with partner.secret of the object the session holds and POSTs.
RetryPost(p) ==
    /\ proc[p].kind = "sweep" /\ proc[p].pc = "retry_post"
    /\ \E r \in Responses :
        /\ proc' = [proc EXCEPT ![p].pc = "retry_mark", ![p].http = r, ![p].nposts = @ + 1,
                                ![p].lid = Head(proc[p].due),
                                ![p].pobj = LoadPartners(p, {wlogs[Head(proc[p].due)].partner}),
                                ![p].signed =
                                    LoadPartners(p, {wlogs[Head(proc[p].due)].partner})[
                                        wlogs[Head(proc[p].due)].partner]]
        /\ resps' = [resps EXCEPT ![Head(proc[p].due)] = Append(@, r)]
    /\ UNCHANGED <<sideVars, payments, txPay, nextPay, cache, lock, reqs, done201, provCalls, degraded,
                   wlogs, txLog, nextLog, partners, txPar, now, hist, overlaps,
                   crashes>>

\* _retry_webhook: mark_delivered on 2xx, mark_failed otherwise.
RetryMark(p) ==
    /\ proc[p].kind = "sweep" /\ proc[p].pc = "retry_mark"
    /\ LET l == proc[p].lid
           row == IF Is2xx(proc[p].http)
                  THEN MarkDelivered(LogView(p)[l], now)
                  ELSE MarkFailed(LogView(p)[l], proc[p].snap[l], now)
       IN /\ ~LogLocked(p, l)
          /\ txLog' = [txLog EXCEPT ![p][l] = row]
          /\ hist' = [hist EXCEPT ![l] = Append(@, row.status)]
          /\ proc' = [proc EXCEPT ![p] =
                IF Is2xx(proc[p].http) THEN [@ EXCEPT !.pc = "retry_incr"] ELSE NextRetry(@)]
    /\ UNCHANGED <<sideVars, payments, txPay, nextPay, cache, lock, reqs, done201, provCalls, degraded,
                   wlogs, nextLog, partners, txPar, now, resps, overlaps, crashes>>

\* _retry_webhook: partner_repo.increment_webhooks_sent(partner.id) after a delivery.
RetryIncr(p) ==
    /\ proc[p].kind = "sweep" /\ proc[p].pc = "retry_incr"
    /\ LET a == LogView(p)[proc[p].lid].partner
       IN /\ ~ParLocked(p, a)
          /\ txPar' = [txPar EXCEPT ![p][a] = IncrementWebhooksSent(ParView(p)[a])]
    /\ proc' = [proc EXCEPT ![p] = NextRetry(@)]
    /\ UNCHANGED <<sideVars, payments, txPay, nextPay, cache, lock, reqs, done201, provCalls, degraded,
                   wlogs, txLog, nextLog, partners, now, hist, resps, overlaps,
                   crashes>>

\* ------------------------------------------------------------------ clock and process stops
\* Retrying rows whose retry time lies ahead.
Ahead == {l \in LogIds : wlogs[l].status = "retrying" /\ wlogs[l].next > now}

\* Time passes until the next retry falls due.
AdvanceTime ==
    /\ Ahead # {}
    /\ now' = (CHOOSE t \in {wlogs[l].next : l \in Ahead} :
                  \A l \in Ahead : t <= wlogs[l].next)
    /\ UNCHANGED <<sideVars, payments, txPay, nextPay, cache, lock, proc, reqs, done201, provCalls,
                   degraded, wlogs, txLog, nextLog, partners, txPar, hist, resps,
                   overlaps, crashes>>

\* The process serving p stops: the session is never committed and the
\* database discards its transaction.
Crash(p) ==
    /\ proc[p].pc \notin {"idle", "done"}
    /\ crashes < MaxCrash
    /\ crashes' = crashes + 1
    /\ txPay' = [txPay EXCEPT ![p] = NoWrites]
    /\ txLog' = [txLog EXCEPT ![p] = NoLogWrites]
    /\ txPar' = [txPar EXCEPT ![p] = NoParWrites]
    /\ proc' = [proc EXCEPT ![p] = Idle]
    /\ UNCHANGED <<sideVars, payments, nextPay, cache, lock, reqs, done201, provCalls, degraded,
                   wlogs, nextLog, partners, now, hist, resps, overlaps>>

\* ------------------------------------------------------------------ utils/hmac_utils.py: strings
\* Strings and byte strings are sequences of one-character strings.
HexDigits == <<"0", "1", "2", "3", "4", "5", "6", "7", "8", "9", "a", "b", "c", "d", "e", "f">>

\* The characters of the model; the last one stands for a non-ASCII character.
Alphabet == HexDigits \o <<"t", "v", "=", ",", ".", " ", "-", "+", "x", "U+00E9">>

Chars == {Alphabet[i] : i \in 1..Len(Alphabet)}

Code(c) == (CHOOSE i \in 1..Len(Alphabet) : Alphabet[i] = c) - 1

IsDigit(c) == Code(c) < 10

IsAscii(s) == \A i \in 1..Len(s) : s[i] # "U+00E9"

\* A variant of Abs that keeps the sign.
Abs_Signed(n) == n

Abs(n) == IF n < 0 THEN 0 - n ELSE n

\* str(n) of an int, as in f"{timestamp}".
RECURSIVE FormatInt(_)
FormatInt(n) ==
    IF n < 0 THEN <<"-">> \o FormatInt(0 - n)
    ELSE IF n < 10 THEN <<HexDigits[n + 1]>>
    ELSE FormatInt(n \div 10) \o <<HexDigits[(n % 10) + 1]>>

\* str.strip(): leading and trailing blanks removed.
RECURSIVE Strip(_)
Strip(s) ==
    IF s = <<>> THEN s
    ELSE IF Head(s) = " " THEN Strip(Tail(s))
    ELSE IF s[Len(s)] = " " THEN Strip(SubSeq(s, 1, Len(s) - 1))
    ELSE s

\* Value of a non-empty string of decimal digits.
RECURSIVE DigitsValue(_)
DigitsValue(s) ==
    IF Len(s) = 1 THEN Code(s[1])
    ELSE 10 * DigitsValue(SubSeq(s, 1, Len(s) - 1)) + Code(s[Len(s)])

\* int(s): blanks around the literal and one sign are accepted; anything
\* else raises ValueError (ok = FALSE).
ParseInt(s) ==
    LET u == Strip(s)
        signed == u # <<>> /\ Head(u) \in {"-", "+"}
        body == IF signed THEN Tail(u) ELSE u
    IN IF body # <<>> /\ \A i \in 1..Len(body) : IsDigit(body[i])
       THEN [ok |-> TRUE,
             val |-> IF signed /\ Head(u) = "-" THEN 0 - DigitsValue(body)
                     ELSE DigitsValue(body)]
       ELSE [ok |-> FALSE, val |-> 0]

\* Position of the first occurrence of c in s, 0 if there is none.
Find(s, c) ==
    IF \E i \in 1..Len(s) : s[i] = c
    THEN CHOOSE i \in 1..Len(s) : s[i] = c /\ \A j \in 1..(i - 1) : s[j] # c
    ELSE 0

\* s.split(c): the items between the separators.
RECURSIVE Split(_, _)
Split(s, c) ==
    IF Find(s, c) = 0 THEN <<s>>
    ELSE <<SubSeq(s, 1, Find(s, c) - 1)>> \o Split(SubSeq(s, Find(s, c) + 1, Len(s)), c)

\* ------------------------------------------------------------------ utils/hmac_utils.py: signatures
TIMESTAMP_TOLERANCE_SECONDS == 300

Secrets == {"a", "b", "c"}

\* Two hexadecimal digits per character: an injective encoding.
RECURSIVE HexEncode(_)
HexEncode(s) ==
    IF s = <<>> THEN <<>>
    ELSE <<HexDigits[(Code(Head(s)) \div 16) + 1], HexDigits[(Code(Head(s)) % 16) + 1]>>
         \o HexEncode(Tail(s))

\* A variant of GenerateSignature that does not depend on the secret.
GenerateSignature_Unkeyed(payload, secret) == HexEncode(payload)

\* generate_signature: hmac.new(secret, payload, sha256).hexdigest().  The
\* digest is a string of hexadecimal digits; HMAC is taken to be free of
\* collisions, so it is an injective function of (secret, payload).
GenerateSignature(payload, secret) == HexEncode(<<secret>> \o payload)

\* verify_signature: hmac.compare_digest(expected, signature) on two str
\* raises TypeError when one of them holds a non-ASCII character.
VerifySignature(payload, signature, secret) ==
    IF ~IsAscii(signature) THEN "TypeError"
    ELSE IF GenerateSignature(payload, secret) = signature THEN "match"
    ELSE "mismatch"

\* A variant of CreateWebhookSignatureHeader that signs the payload alone.
CreateWebhookSignatureHeader_Unstamped(payload, secret, timestamp) ==
    <<"t", "=">> \o FormatInt(timestamp) \o <<",", "v", "1", "=">>
    \o GenerateSignature(payload, secret)

\* create_webhook_signature_header: "t=<timestamp>,v1=<signature>" with the
\* signature over "<timestamp>.<payload>".
CreateWebhookSignatureHeader(payload, secret, timestamp) ==
    <<"t", "=">> \o FormatInt(timestamp) \o <<",", "v", "1", "=">>
    \o GenerateSignature(FormatInt(timestamp) \o <<".">> \o payload, secret)

\* The parts dictionary of verify_webhook_signature_header: for every item of
\* header.split(",") holding "=", key and value are the stripped halves around
\* the first "="; a later item replaces an earlier one of the same key.
\* parts.get(key), with <<>> for None (the code tests both with `not`).
GetPart(header, key) ==
    LET items == Split(header, ",")
        hits == {i \in 1..Len(items) :
                    /\ Find(items[i], "=") # 0
                    /\ Strip(SubSeq(items[i], 1, Find(items[i], "=") - 1)) = key}
    IN IF hits = {} THEN <<>>
       ELSE LET i == CHOOSE j \in hits : \A h \in hits : h <= j
            IN Strip(SubSeq(items[i], Find(items[i], "=") + 1, Len(items[i])))

\* A variant of VerifyWebhookSignatureHeader without the test for missing entries.
VerifyWebhookSignatureHeader_NoFormatCheck(payload, header, secret, tolerance, t) ==
    LET timestamp_str == GetPart(header, <<"t">>)
        received == GetPart(header, <<"v", "1">>)
        timestamp == ParseInt(timestamp_str).val
    IN IF ~ParseInt(timestamp_str).ok
       THEN <<FALSE, "Failed to parse signature">>
       ELSE IF Abs(t - timestamp) > tolerance
       THEN <<FALSE, "Timestamp out of tolerance">>
       ELSE IF VerifySignature(FormatInt(timestamp) \o <<".">> \o payload, received,
                               secret) # "match"
       THEN <<FALSE, "Invalid signature">>
       ELSE <<TRUE, "none">>

\* verify_webhook_signature_header(payload, signature_header, secret,
\* tolerance_seconds) at clock value t: <<is_valid, error>>.
VerifyWebhookSignatureHeader(payload, header, secret, tolerance, t) ==
    LET timestamp_str == GetPart(header, <<"t">>)
        received == GetPart(header, <<"v", "1">>)
        timestamp == ParseInt(timestamp_str).val
        signed == FormatInt(timestamp) \o <<".">> \o payload
    IN IF timestamp_str = <<>> \/ received = <<>>
       THEN <<FALSE, "Invalid signature header format">>
       ELSE IF ~ParseInt(timestamp_str).ok
       THEN <<FALSE, "Failed to parse signature">>
       ELSE IF Abs(t - timestamp) > tolerance
       THEN <<FALSE, "Timestamp out of tolerance">>
       ELSE IF VerifySignature(signed, received, secret) = "TypeError"
       THEN <<FALSE, "Verification error">>
       ELSE IF VerifySignature(signed, received, secret) = "mismatch"
       THEN <<FALSE, "Invalid signature">>
       ELSE <<TRUE, "none">>

\* verify_webhook_with_secrets: the current secret first, then the previous
\* one if there is one ("none": no previous secret); the error reported is
\* the one of the current secret.
VerifyWebhookWithSecrets(payload, header, current, previous, tolerance, t) ==
    LET first == VerifyWebhookSignatureHeader(payload, header, current, tolerance, t)
    IN IF first[1] THEN <<TRUE, "none">>
       ELSE IF previous # "none"
               /\ VerifyWebhookSignatureHeader(payload, header, previous, tolerance, t)[1]
       THEN <<TRUE, "none">>
       ELSE <<FALSE, first[2]>>

\* ------------------------------------------------------------------ signature checks
\* Payload bytes: a digit, the separator of the signed message and the
\* separator of the header.
PayloadBytes == {"1", ".", ","}

RECURSIVE SeqsUpTo(_, _)
SeqsUpTo(S, n) ==
    IF n = 0 THEN {<<>>}
    ELSE SeqsUpTo(S, n - 1)
         \cup {Append(s, c) : s \in {t \in SeqsUpTo(S, n - 1) : Len(t) = n - 1}, c \in S}

Payloads == SeqsUpTo(PayloadBytes, MaxPayloadLen)

\* Header strings that did not come out of create_webhook_signature_header.
RawHeaders == SeqsUpTo({"t", "v", "1", "=", ","}, MaxHdrLen)

\* int(time.time()) at the start, and the distances by which the clock of the
\* signer is off or the verifier is late.
StartTimes == {0, 1000}
Skews == {0, 1, 0 - 1, 299, 0 - 299, 300, 0 - 300, 301, 0 - 301}
Delays == {1, 300, 301}

\* No signature check in progress.
NoSig ==
    [stage |-> "idle", payload |-> <<>>, secret |-> "none", ts |-> 0, sigts |-> 0,
     hdr |-> <<>>, how |-> "none", vpayload |-> <<>>, vsecret |-> "none",
     now |-> 0, ticks |-> 0, ok |-> FALSE, err |-> "none"]

\* A sender holds a payload and the secret it shares with the verifier.
NewSig ==
    {[NoSig EXCEPT !.stage = "new", !.payload = b, !.secret = s, !.vpayload = b,
                   !.vsecret = s, !.now = t] :
        b \in Payloads, s \in Secrets, t \in StartTimes}

\* create_webhook_signature_header(payload, secret, timestamp): d = 0 is the
\* default timestamp int(time.time()).
SigCreate(d) ==
    /\ sig.stage = "new"
    /\ sig' = [sig EXCEPT !.stage = "signed", !.ts = sig.now + d, !.sigts = sig.now + d,
                          !.how = "created",
                          !.hdr = CreateWebhookSignatureHeader(sig.payload, sig.secret,
                                                               sig.now + d)]
    /\ UNCHANGED <<partVars, calls, psec, pw, payments, txPay, nextPay, cache, lock, proc, reqs, done201,
                   provCalls, degraded, logVars>>

\* A header carrying timestamp ts whose signature was computed by somebody
\* else: with another secret, over another payload, or for another timestamp.
SigForge ==
    /\ sig.stage = "signed" /\ sig.how = "created"
    /\ \/ \E s \in Secrets \ {sig.secret} :
            sig' = [sig EXCEPT !.how = "other_secret",
                       !.hdr = CreateWebhookSignatureHeader(sig.payload, s, sig.ts)]
       \/ \E b \in Payloads \ {sig.payload} :
            sig' = [sig EXCEPT !.how = "other_payload",
                       !.hdr = CreateWebhookSignatureHeader(b, sig.secret, sig.ts)]
       \/ \E t \in {sig.ts - 1, sig.ts + 1, sig.ts * 10} \ {sig.ts} :
            sig' = [sig EXCEPT !.how = "other_timestamp", !.sigts = t,
                       !.hdr = <<"t", "=">> \o FormatInt(sig.ts) \o <<",", "v", "1", "=">>
                               \o GenerateSignature(FormatInt(t) \o <<".">> \o sig.payload,
                                                    sig.secret)]
    /\ UNCHANGED <<partVars, calls, psec, pw, payments, txPay, nextPay, cache, lock, proc, reqs, done201,
                   provCalls, degraded, logVars>>

\* The signature of the header that create_webhook_signature_header made.
MadeSignature == GetPart(sig.hdr, <<"v", "1">>)

\* The header rewritten or damaged on its way: the same entries spelled
\* otherwise, an entry missing or empty, or an entry that is not well formed.
Rewrites ==
    LET t == FormatInt(sig.ts)
        v == MadeSignature
    IN {[how |-> "swapped", hdr |-> <<"v", "1", "=">> \o v \o <<",", "t", "=">> \o t],
        [how |-> "spaced", hdr |-> <<" ", "t", " ", "=", " ">> \o t
                                   \o <<" ", ",", " ", "v", "1", " ", "=", " ">> \o v],
        [how |-> "padded", hdr |-> <<"t", "=", IF sig.ts < 0 THEN "-" ELSE "+", "0">>
                                   \o FormatInt(Abs(sig.ts)) \o <<",", "v", "1", "=">> \o v],
        [how |-> "extra_item", hdr |-> sig.hdr \o <<",", "x", "=", "1">>],
        [how |-> "second_t", hdr |-> sig.hdr \o <<",", "t", "=">> \o FormatInt(sig.ts + 1)],
        [how |-> "no_t", hdr |-> <<"v", "1", "=">> \o v],
        [how |-> "no_v1", hdr |-> <<"t", "=">> \o t],
        [how |-> "empty_t", hdr |-> <<"t", "=", ",", "v", "1", "=">> \o v],
        [how |-> "empty_v1", hdr |-> <<"t", "=">> \o t \o <<",", "v", "1", "=", " ">>],
        [how |-> "v0_only", hdr |-> <<"t", "=">> \o t \o <<",", "v", "0", "=">> \o v],
        [how |-> "bad_t", hdr |-> <<"t", "=", "x">> \o t \o <<",", "v", "1", "=">> \o v],
        [how |-> "nonascii_v1", hdr |-> sig.hdr \o <<"U+00E9">>]}

SigRewrite ==
    /\ sig.stage = "signed" /\ sig.how = "created"
    /\ \E w \in Rewrites : sig' = [sig EXCEPT !.how = w.how, !.hdr = w.hdr]
    /\ UNCHANGED <<partVars, calls, psec, pw, payments, txPay, nextPay, cache, lock, proc, reqs, done201,
                   provCalls, degraded, logVars>>

\* A header that nobody signed arrives.
SigRaw ==
    /\ sig.stage = "new"
    /\ \E h \in RawHeaders : sig' = [sig EXCEPT !.stage = "signed", !.how = "raw", !.hdr = h]
    /\ UNCHANGED <<partVars, calls, psec, pw, payments, txPay, nextPay, cache, lock, proc, reqs, done201,
                   provCalls, degraded, logVars>>

\* The verifier gets the request later: its int(time.time()) has moved on.
SigTick ==
    /\ sig.stage = "signed" /\ sig.ticks < MaxTicks
    /\ \E d \in Delays : sig' = [sig EXCEPT !.now = @ + d, !.ticks = @ + 1]
    /\ UNCHANGED <<partVars, calls, psec, pw, payments, txPay, nextPay, cache, lock, proc, reqs, done201,
                   provCalls, degraded, logVars>>

\* verify_webhook_signature_header(payload, signature_header, secret).
SigVerify ==
    /\ sig.stage = "signed"
    /\ LET r == VerifyWebhookSignatureHeader(sig.vpayload, sig.hdr, sig.vsecret,
                                             TIMESTAMP_TOLERANCE_SECONDS, sig.now)
       IN sig' = [sig EXCEPT !.stage = "verified", !.ok = r[1], !.err = r[2]]
    /\ UNCHANGED <<partVars, calls, psec, pw, payments, txPay, nextPay, cache, lock, proc, reqs, done201,
                   provCalls, degraded, logVars>>

\* ------------------------------------------------------------------ partner secrets
\* grace_period_hours of the rotate-secret route (Query(ge=1, le=168),
\* default 24), in minutes.
GracePeriods == {60, 1440}

\* The default grace_period_hours, in minutes.
DefaultGrace == 1440

\* No inbound partner webhook so far.
NoInbound ==
    [stage |-> "idle", n |-> 0, partner |-> 0, signer |-> "none", at |-> 0,
     secret |-> "none", previous |-> "none", until |-> NoTime, code |-> 0, err |-> "none"]

\* PartnerRepository.rotate_secret(partner_id, grace_period_hours), committed
\* by its request: the current secret becomes the previous one, valid until
\* now + grace; generate_secret() gives a secret not in use.
RotateSecret(a, g) ==
    /\ psec[a].rotations < MaxRotate
    /\ \E s \in Secrets \ {psec[a].secret, psec[a].previous} :
          psec' = [psec EXCEPT ![a] = [secret |-> s, previous |-> psec[a].secret,
                                       until |-> now + g, rotations |-> @.rotations + 1]]
    /\ UNCHANGED <<partVars, calls, sig, pw, payments, txPay, nextPay, cache, lock, proc, reqs, done201,
                   provCalls, degraded, wlogs, txLog, nextLog, partners, txPar, now, hist,
                   resps, overlaps, crashes>>

\* Time passes up to the minute before the end of a grace period, to its end
\* or beyond.
GraceAdvance ==
    /\ \E a \in PartnerIds, d \in {0 - 1, 0, 1, 60} :
          /\ psec[a].until # NoTime
          /\ psec[a].until + d > now
          /\ now' = psec[a].until + d
    /\ UNCHANGED <<sideVars, payments, txPay, nextPay, cache, lock, proc, reqs, done201,
                   provCalls, degraded, wlogs, txLog, nextLog, partners, txPar, hist,
                   resps, overlaps, crashes>>

\* A request body that json.loads accepts.
JsonBody == <<"1">>

\* POST /webhooks/partner for partner a: the body is valid JSON signed by the
\* sender with secret s at the current time.  The route verifies the header
\* with partner.secret and, if that fails and partner.previous_secret is set,
\* with partner.previous_secret; 401 if neither verifies.
PartnerWebhook(a, s) ==
    /\ pw.stage = "idle" /\ pw.n < MaxInbound
    /\ LET ts == now * 60
           b == JsonBody
           header == CreateWebhookSignatureHeader(b, s, ts)
           first == VerifyWebhookSignatureHeader(b, header, psec[a].secret,
                                                 TIMESTAMP_TOLERANCE_SECONDS, ts)
           second == VerifyWebhookSignatureHeader(b, header, psec[a].previous,
                                                  TIMESTAMP_TOLERANCE_SECONDS, ts)
           valid == IF ~first[1] /\ psec[a].previous # "none" THEN second ELSE first
       IN pw' = [stage |-> "done", n |-> pw.n + 1, partner |-> a, signer |-> s, at |-> now,
                 secret |-> psec[a].secret, previous |-> psec[a].previous,
                 until |-> psec[a].until,
                 code |-> IF valid[1] THEN 200 ELSE 401, err |-> valid[2]]
    /\ UNCHANGED <<partVars, calls, sig, psec, payments, txPay, nextPay, cache, lock, proc, reqs, done201,
                   provCalls, degraded, logVars>>

\* The response has been sent.
InboundFinish ==
    /\ pw.stage = "done"
    /\ pw' = [NoInbound EXCEPT !.n = pw.n]
    /\ UNCHANGED <<partVars, calls, sig, psec, payments, txPay, nextPay, cache, lock, proc, reqs, done201,
                   provCalls, degraded, logVars>>

\* ------------------------------------------------------------------ utils/idempotency.py: direct calls
\* Responses a caller may cache.
CachedResponses == {[pid |-> 1, status |-> "pending"], [pid |-> 2, status |-> "failed"]}

\* No call so far.  put[k] is what the calls on the coordinator last stored
\* for k: the response of the latest cache_response(k, r), NoResp after
\* delete(k).
NoCall ==
    [n |-> 0, op |-> "none", key |-> 0, ret |-> "none", put |-> [k \in StoreKeys |-> NoResp]]

\* is_processing(k).  InMemoryIdempotencyManager: k in _locks, else add it.
\* IdempotencyManager: SET lock:k NX EX 30, `not acquired`; a RedisError is
\* answered False.
CallIsProcessing(k) ==
    /\ calls.n < MaxCalls
    /\ \E err \in RedisErr :
          /\ lock' = IF err THEN lock ELSE [lock EXCEPT ![k] = TRUE]
          /\ calls' = [calls EXCEPT !.n = @ + 1, !.op = "is_processing", !.key = k,
                                    !.ret = IF err THEN "False"
                                            ELSE IF lock[k] THEN "True" ELSE "False"]
    /\ UNCHANGED <<partVars, sig, psec, pw, payments, txPay, nextPay, cache, proc, reqs, done201,
                   provCalls, degraded, logVars>>

\* release_lock(k): _locks.discard(k) / DEL lock:k; a RedisError is logged.
CallReleaseLock(k) ==
    /\ calls.n < MaxCalls
    /\ \E err \in RedisErr : lock' = ReleaseLockKey(k, err)
    /\ calls' = [calls EXCEPT !.n = @ + 1, !.op = "release_lock", !.key = k, !.ret = "None"]
    /\ UNCHANGED <<partVars, sig, psec, pw, payments, txPay, nextPay, cache, proc, reqs, done201,
                   provCalls, degraded, logVars>>

\* cache_response(k, r): _cache[k] = r / SETEX k; True, or False on RedisError.
CallCacheResponse(k, r) ==
    /\ calls.n < MaxCalls
    /\ \E err \in RedisErr :
          /\ cache' = IF err THEN cache ELSE [cache EXCEPT ![k] = r]
          /\ calls' = [calls EXCEPT !.n = @ + 1, !.op = "cache_response", !.key = k,
                                    !.ret = IF err THEN "False" ELSE "True",
                                    !.put[k] = r]
    /\ UNCHANGED <<partVars, sig, psec, pw, payments, txPay, nextPay, lock, proc, reqs, done201,
                   provCalls, degraded, logVars>>

\* get_cached_response(k): _cache.get(k) / GET k; None on RedisError.
CallGetCachedResponse(k) ==
    /\ calls.n < MaxCalls
    /\ \E err \in RedisErr :
          calls' = [calls EXCEPT !.n = @ + 1, !.op = "get_cached_response", !.key = k,
                                 !.ret = IF err THEN NoResp ELSE cache[k]]
    /\ UNCHANGED <<partVars, sig, psec, pw, payments, txPay, nextPay, cache, lock, proc, reqs,
                   done201, provCalls, degraded, logVars>>

\* A variant of CallDelete that empties the whole cache.
CallDelete_Flush(k) ==
    /\ calls.n < MaxCalls
    /\ cache' = [j \in StoreKeys |-> NoResp]
    /\ calls' = [calls EXCEPT !.n = @ + 1, !.op = "delete", !.key = k, !.ret = "True",
                              !.put[k] = NoResp]
    /\ UNCHANGED <<partVars, sig, psec, pw, payments, txPay, nextPay, lock, proc, reqs, done201,
                   provCalls, degraded, logVars>>

\* delete(k): _cache.pop(k, None) / DEL k; True, or False on RedisError.
CallDelete(k) ==
    /\ calls.n < MaxCalls
    /\ \E err \in RedisErr :
          /\ cache' = IF err THEN cache ELSE [cache EXCEPT ![k] = NoResp]
          /\ calls' = [calls EXCEPT !.n = @ + 1, !.op = "delete", !.key = k,
                                    !.ret = IF err THEN "False" ELSE "True",
                                    !.put[k] = NoResp]
    /\ UNCHANGED <<partVars, sig, psec, pw, payments, txPay, nextPay, lock, proc, reqs, done201,
                   provCalls, degraded, logVars>>

\* ------------------------------------------------------------------ partner management
PartIds == 1..MaxPartners
PartProcs == 1..NPartProc
PartNames == {"x", "y"}

\* Secrets are numbered in the order generate_secret() produced them; 0 is
\* NULL (previous_secret of a partner never rotated).
NoPart == [name |-> "none", status |-> "none", secret |-> 0, previous |-> 0, until |-> NoTime]
NoPartWrite == [NoPart EXCEPT !.status = "nowrite"]
NoPartWrites == [a \in PartIds |-> NoPartWrite]

IsPart(r) == r.status \notin {"none", "nowrite"}

PartIdle ==
    [op |-> "idle", pc |-> "idle", id |-> 0, name |-> "none", grace |-> 0, cand |-> 0,
     seen |-> NoPart, code |-> 0, res |-> "none", ret |-> 0, tz |-> "none", at |-> 0]

\* What management request p's session reads.
PartView(p) ==
    [a \in PartIds |-> IF ptx[p][a].status # "nowrite" THEN ptx[p][a] ELSE prows[a]]

\* PartnerRepository.get_by_id: the visible row, NoPart if there is none.
GetById(p, a) == IF IsPart(PartView(p)[a]) THEN PartView(p)[a] ELSE NoPart

\* PartnerRepository.get_by_name: id of the visible row with that name, 0 if none.
GetByName(p, n) ==
    IF \E a \in PartIds : IsPart(PartView(p)[a]) /\ PartView(p)[a].name = n
    THEN CHOOSE a \in PartIds : IsPart(PartView(p)[a]) /\ PartView(p)[a].name = n
    ELSE 0

\* unique(name): a statement writing name n waits while another transaction
\* has an uncommitted row with that name or an uncommitted write on the
\* committed row holding it.
NameInFlight(p, n) ==
    \E q \in PartProcs \ {p} : \E a \in PartIds :
        /\ ptx[q][a].status # "nowrite"
        /\ (ptx[q][a].name = n \/ (IsPart(prows[a]) /\ prows[a].name = n))

\* A variant of NameTaken for a table without the unique constraint.
NameTaken_Unconstrained(p, a, n) == FALSE

\* unique(name): the name is held by a visible row other than row a.
NameTaken(p, a, n) ==
    \E b \in PartIds \ {a} : IsPart(PartView(p)[b]) /\ PartView(p)[b].name = n

\* UPDATE of row a waits while another transaction has written it.
PartLocked(p, a) == \E q \in PartProcs \ {p} : ptx[q][a].status # "nowrite"

\* PartnerRepository.generate_secret(): a secret not produced before.
GenerateSecret == pgen.secret + 1

\* POST /partners/register with name n.
StartRegister(p, n) ==
    /\ preq[p].pc = "idle" /\ pgen.reqs < MaxPartReq
    /\ preq' = [preq EXCEPT ![p] = [PartIdle EXCEPT !.op = "register", !.pc = "reg_check",
                                                    !.name = n]]
    /\ pgen' = [pgen EXCEPT !.reqs = @ + 1]
    /\ UNCHANGED <<prows, ptx, sig, psec, pw, calls, payments, txPay, nextPay, cache, lock,
                   proc, reqs, done201, provCalls, degraded, logVars>>

\* PartnerService.register_partner: existing = repo.get_by_name(name);
\* PartnerAlreadyExistsError (409) if there is one.
RegisterCheck(p) ==
    /\ preq[p].op = "register" /\ preq[p].pc = "reg_check"
    /\ preq' = [preq EXCEPT ![p] =
          IF GetByName(p, preq[p].name) # 0
          THEN [@ EXCEPT !.pc = "rollback", !.code = 409, !.res = "PartnerAlreadyExists"]
          ELSE [@ EXCEPT !.pc = "reg_create"]]
    /\ UNCHANGED <<prows, ptx, pgen, sig, psec, pw, calls, payments, txPay, nextPay, cache,
                   lock, proc, reqs, done201, provCalls, degraded, logVars>>

\* PartnerRepository.create: INSERT with a generated secret and status
\* active, flush.  A committed row with the same name raises IntegrityError,
\* which no handler of the route catches (500).
RegisterCreate(p) ==
    /\ preq[p].op = "register" /\ preq[p].pc = "reg_create"
    /\ ~NameInFlight(p, preq[p].name)
    /\ IF NameTaken(p, 0, preq[p].name)
       THEN /\ preq' = [preq EXCEPT ![p].pc = "rollback", ![p].code = 500,
                                    ![p].res = "IntegrityError"]
            /\ UNCHANGED <<ptx, pgen>>
       ELSE /\ pgen.id <= MaxPartners
            /\ ptx' = [ptx EXCEPT ![p][pgen.id] =
                          [name |-> preq[p].name, status |-> "active",
                           secret |-> GenerateSecret, previous |-> 0, until |-> NoTime]]
            /\ pgen' = [pgen EXCEPT !.id = @ + 1, !.secret = GenerateSecret]
            /\ preq' = [preq EXCEPT ![p].pc = "commit", ![p].code = 201, ![p].id = pgen.id,
                                    ![p].res = "ok", ![p].ret = GenerateSecret]
    /\ UNCHANGED <<prows, sig, psec, pw, calls, payments, txPay, nextPay, cache, lock,
                   proc, reqs, done201, provCalls, degraded, logVars>>

\* PATCH /partners/{a} with name n.
StartRename(p, a, n) ==
    /\ preq[p].pc = "idle" /\ pgen.reqs < MaxPartReq
    /\ preq' = [preq EXCEPT ![p] = [PartIdle EXCEPT !.op = "update", !.pc = "upd_read",
                                                    !.id = a, !.name = n]]
    /\ pgen' = [pgen EXCEPT !.reqs = @ + 1]
    /\ UNCHANGED <<prows, ptx, sig, psec, pw, calls, payments, txPay, nextPay, cache, lock,
                   proc, reqs, done201, provCalls, degraded, logVars>>

\* PartnerService.update_partner: partner = repo.get_by_id(partner_id);
\* PartnerNotFoundError (404); the name is looked up only if it changes.
RenameRead(p) ==
    /\ preq[p].op = "update" /\ preq[p].pc = "upd_read"
    /\ LET row == GetById(p, preq[p].id)
       IN preq' = [preq EXCEPT ![p] =
              IF ~IsPart(row)
              THEN [@ EXCEPT !.pc = "rollback", !.code = 404, !.res = "PartnerNotFound"]
              ELSE [@ EXCEPT !.seen = row,
                             !.pc = IF preq[p].name # row.name THEN "upd_check"
                                    ELSE "upd_write"]]
    /\ UNCHANGED <<prows, ptx, pgen, sig, psec, pw, calls, payments, txPay, nextPay, cache,
                   lock, proc, reqs, done201, provCalls, degraded, logVars>>

\* existing = repo.get_by_name(request.name); PartnerAlreadyExistsError (409).
RenameCheck(p) ==
    /\ preq[p].op = "update" /\ preq[p].pc = "upd_check"
    /\ preq' = [preq EXCEPT ![p] =
          IF GetByName(p, preq[p].name) # 0
          THEN [@ EXCEPT !.pc = "rollback", !.code = 409, !.res = "PartnerAlreadyExists"]
          ELSE [@ EXCEPT !.pc = "upd_write"]]
    /\ UNCHANGED <<prows, ptx, pgen, sig, psec, pw, calls, payments, txPay, nextPay, cache,
                   lock, proc, reqs, done201, provCalls, degraded, logVars>>

\* PartnerRepository.update: UPDATE partners SET name = n WHERE id = a, flush;
\* a name held by another row raises IntegrityError (500).
RenameWrite(p) ==
    /\ preq[p].op = "update" /\ preq[p].pc = "upd_write"
    /\ LET a == preq[p].id
           n == preq[p].name
           row == PartView(p)[a]
       IN /\ ~PartLocked(p, a)
          /\ (n # row.name) => ~NameInFlight(p, n)
          /\ IF n # row.name /\ NameTaken(p, a, n)
             THEN /\ preq' = [preq EXCEPT ![p].pc = "rollback", ![p].code = 500,
                                          ![p].res = "IntegrityError"]
                  /\ ptx' = ptx
             ELSE /\ ptx' = [ptx EXCEPT ![p][a] = [row EXCEPT !.name = n]]
                  /\ preq' = [preq EXCEPT ![p].pc = "commit", ![p].code = 200,
                                          ![p].res = "ok"]
    /\ UNCHANGED <<prows, pgen, sig, psec, pw, calls, payments, txPay, nextPay, cache, lock,
                   proc, reqs, done201, provCalls, degraded, logVars>>

\* POST /partners/{a}/rotate-secret?grace_period_hours=g (g in minutes here).
StartRotate(p, a, g) ==
    /\ preq[p].pc = "idle" /\ pgen.reqs < MaxPartReq
    /\ preq' = [preq EXCEPT ![p] = [PartIdle EXCEPT !.op = "rotate", !.pc = "rot_read",
                                                    !.id = a, !.grace = g]]
    /\ pgen' = [pgen EXCEPT !.reqs = @ + 1]
    /\ UNCHANGED <<prows, ptx, sig, psec, pw, calls, payments, txPay, nextPay, cache, lock,
                   proc, reqs, done201, provCalls, degraded, logVars>>

\* PartnerRepository.rotate_secret: partner = get_by_id(partner_id); (None, "")
\* if there is none, which the service turns into PartnerNotFoundError (404).
RotateRead(p) ==
    /\ preq[p].op = "rotate" /\ preq[p].pc = "rot_read"
    /\ LET row == GetById(p, preq[p].id)
       IN preq' = [preq EXCEPT ![p] =
              IF ~IsPart(row)
              THEN [@ EXCEPT !.pc = "rollback", !.code = 404, !.res = "PartnerNotFound"]
              ELSE [@ EXCEPT !.seen = row, !.pc = "rot_write"]]
    /\ UNCHANGED <<prows, ptx, pgen, sig, psec, pw, calls, payments, txPay, nextPay, cache,
                   lock, proc, reqs, done201, provCalls, degraded, logVars>>

\* A variant of RotatedRow that keeps the previous secret it finds.
RotatedRow_KeepPrevious(row, seen, secret, t) ==
    [row EXCEPT !.previous = IF row.previous # 0 THEN row.previous ELSE seen.secret,
                !.until = t, !.secret = secret]

\* The UPDATE of rotate_secret: previous_secret = partner.secret (as read),
\* previous_secret_valid_until = utcnow() + grace, secret = new_secret.
RotatedRow(row, seen, secret, t) ==
    [row EXCEPT !.previous = seen.secret, !.until = t, !.secret = secret]

\* new_secret = generate_secret(); the UPDATE, flush; the partner is read
\* again and returned with the new secret.
RotateWrite(p) ==
    /\ preq[p].op = "rotate" /\ preq[p].pc = "rot_write"
    /\ ~PartLocked(p, preq[p].id)
    /\ ptx' = [ptx EXCEPT ![p][preq[p].id] =
                  RotatedRow(PartView(p)[preq[p].id], preq[p].seen, GenerateSecret,
                             now + preq[p].grace)]
    /\ pgen' = [pgen EXCEPT !.secret = GenerateSecret]
    /\ preq' = [preq EXCEPT ![p].pc = "commit", ![p].code = 200, ![p].res = "ok",
                            ![p].ret = GenerateSecret]
    /\ UNCHANGED <<prows, sig, psec, pw, calls, payments, txPay, nextPay, cache, lock,
                   proc, reqs, done201, provCalls, degraded, logVars>>

\* get_db of a management request: session.commit().
PartCommit(p) ==
    /\ preq[p].pc = "commit"
    /\ prows' = PartView(p)
    /\ ptx' = [ptx EXCEPT ![p] = NoPartWrites]
    /\ preq' = [preq EXCEPT ![p].pc = "done"]
    /\ UNCHANGED <<pgen, sig, psec, pw, calls, payments, txPay, nextPay, cache, lock,
                   proc, reqs, done201, provCalls, degraded, logVars>>

\* get_db of a management request: session.rollback().
PartRollback(p) ==
    /\ preq[p].pc = "rollback"
    /\ ptx' = [ptx EXCEPT ![p] = NoPartWrites]
    /\ preq' = [preq EXCEPT ![p].pc = "done"]
    /\ UNCHANGED <<prows, pgen, sig, psec, pw, calls, payments, txPay, nextPay, cache, lock,
                   proc, reqs, done201, provCalls, degraded, logVars>>

\* The response has been sent.
PartFinish(p) ==
    /\ preq[p].pc = "done"
    /\ preq' = [preq EXCEPT ![p] = PartIdle]
    /\ UNCHANGED <<prows, ptx, pgen, sig, psec, pw, calls, payments, txPay, nextPay, cache,
                   lock, proc, reqs, done201, provCalls, degraded, logVars>>

\* A candidate secret with a character outside ASCII, which
\* secrets.compare_digest refuses with TypeError.
NonAscii == -1

\* What a DateTime(timezone=True) column is read back as: offset-aware with
\* PostgreSQL/asyncpg (the configured engine), naive with SQLite.
ColumnDatetimes == {"aware", "naive"}

\* secrets.compare_digest(a, b) on two str.
CompareDigest(a, b) == IF b = NonAscii THEN "TypeError" ELSE IF a = b THEN "True" ELSE "False"

\* PartnerRepository.verify_secret after get_by_id returned row, at time t:
\* the current secret first; then previous_secret if it and
\* previous_secret_valid_until are set and previous_secret_valid_until >
\* datetime.utcnow().  utcnow() is naive, so the comparison raises TypeError
\* when the column value is offset-aware.
VerifySecretRow(row, c, t, tz) ==
    IF ~IsPart(row) THEN "False"
    ELSE IF CompareDigest(row.secret, c) # "False" THEN CompareDigest(row.secret, c)
    ELSE IF row.previous = 0 \/ row.until = NoTime THEN "False"
    ELSE IF tz = "aware" THEN "TypeError"
    ELSE IF row.until > t THEN CompareDigest(row.previous, c)
    ELSE "False"

\* Candidate secrets: 0 is a string that is no partner's secret.
Candidates == (0..MaxPartReq) \cup {NonAscii}

\* PartnerService.verify_partner_secret(a, c), called with its own session;
\* the candidate is a secret generated so far or one of the other strings.
StartVerify(p, a, c) ==
    /\ preq[p].pc = "idle" /\ pgen.reqs < MaxPartReq
    /\ c <= pgen.secret
    /\ preq' = [preq EXCEPT ![p] = [PartIdle EXCEPT !.op = "verify", !.pc = "verify",
                                                    !.id = a, !.cand = c]]
    /\ pgen' = [pgen EXCEPT !.reqs = @ + 1]
    /\ UNCHANGED <<prows, ptx, sig, psec, pw, calls, payments, txPay, nextPay, cache, lock,
                   proc, reqs, done201, provCalls, degraded, logVars>>

\* PartnerRepository.verify_secret: get_by_id and the comparisons; the
\* answer is True, False or the exception raised.
VerifySecret(p) ==
    /\ preq[p].op = "verify" /\ preq[p].pc = "verify"
    /\ \E tz \in ColumnDatetimes :
          preq' = [preq EXCEPT ![p].seen = GetById(p, preq[p].id), ![p].tz = tz,
                               ![p].at = now,
                               ![p].res = VerifySecretRow(GetById(p, preq[p].id),
                                                          preq[p].cand, now, tz),
                               ![p].pc = "done"]
    /\ UNCHANGED <<prows, ptx, pgen, sig, psec, pw, calls, payments, txPay, nextPay, cache,
                   lock, proc, reqs, done201, provCalls, degraded, logVars>>

\* Time passes up to the minute before the end of a partner's grace period,
\* to its end or beyond.
PartTick ==
    /\ \E a \in PartIds, d \in {0 - 1, 0, 1} :
          /\ prows[a].until # NoTime
          /\ prows[a].until + d > now
          /\ now' = prows[a].until + d
    /\ UNCHANGED <<sideVars, payments, txPay, nextPay, cache, lock, proc, reqs, done201,
                   provCalls, degraded, wlogs, txLog, nextLog, partners, txPar, hist, resps,
                   overlaps, crashes>>

\* ------------------------------------------------------------------ specification
\* The stores after start-up: empty tables apart from the registered partners.
InitStores ==
    /\ payments = [i \in PayIds |-> NoPayment]
    /\ txPay = [p \in Procs |-> NoWrites]
    /\ nextPay = 1
    /\ cache = [k \in StoreKeys |-> NoResp]
    /\ lock = [k \in StoreKeys |-> FALSE]
    /\ proc = [p \in Procs |-> Idle]
    /\ reqs = 0
    /\ done201 = [k \in Keys |-> {}]
    /\ provCalls = [k \in Keys \cup {NoKey} |-> 0]
    /\ degraded \in BOOLEAN
    /\ wlogs = [l \in LogIds |-> NoLog]
    /\ txLog = [p \in Procs |-> NoLogWrites]
    /\ nextLog = 1
    /\ txPar = [p \in Procs |-> NoParWrites]
    /\ now = 0
    /\ hist = [l \in LogIds |-> <<>>]
    /\ resps = [l \in LogIds |-> <<>>]
    /\ overlaps = 0
    /\ crashes = 0

\* The registered partners are active and subscribed to SubscribedEvents.
InitDb ==
    /\ InitStores
    /\ partners = [a \in PartnerIds |->
                      [status |-> "active", events |-> SubscribedEvents, sent |-> 0]]

InitSecrets ==
    /\ psec = [a \in PartnerIds |-> [secret |-> "a", previous |-> "none", until |-> NoTime,
                                     rotations |-> 0]]
    /\ pw = NoInbound
    /\ calls = NoCall
    /\ prows = [a \in PartIds |-> NoPart]
    /\ ptx = [p \in PartProcs |-> NoPartWrites]
    /\ preq = [p \in PartProcs |-> PartIdle]
    /\ pgen = [id |-> 1, secret |-> 0, reqs |-> 0]

Init == InitDb /\ sig = NoSig /\ InitSecrets

CreateSteps(p) ==
    \/ GetCachedResponse(p)
    \/ IsProcessing(p)
    \/ SvcLookup(p)
    \/ SvcInsert(p)
    \/ SvcProvider(p)
    \/ SvcUpdate(p)
    \/ SvcFail(p)
    \/ CacheResponse(p)
    \/ ReleaseOk(p)
    \/ ReleasePpe(p)
    \/ ReleaseExc(p)

NextPay ==
    \/ \E p \in Procs : \E k \in Keys \cup {NoKey} : StartCreate(p, k)
    \/ \E p \in Procs : CreateSteps(p)
    \/ \E p \in Procs : DbCommit(p)
    \/ \E p \in Procs : DbRollback(p)
    \/ \E p \in Procs : Finish(p)
    \/ \E k \in Keys : LockExpire(k)
    \/ \E k \in Keys : CacheExpire(k)

SpecPay == Init /\ [][NextPay]_vars

SvcSteps(p) ==
    \/ SvcInsert(p)
    \/ SvcProvider(p)
    \/ SvcUpdate(p)
    \/ SvcFail(p)
    \/ CacheResponse(p)
    \/ ReleasePpe(p)
    \/ UpdateRead(p)
    \/ UpdateWrite(p)
    \/ CancelRead(p)
    \/ CancelProvider(p)
    \/ CancelUpdate(p)
    \/ RefundRead(p)
    \/ RefundProvider(p)

HookSteps(p) ==
    \/ HookDedup(p)
    \/ HookFind(p)
    \/ HookApply(p)
    \/ HookLog(p)
    \/ HookDispatch(p)

SendSteps(p) ==
    \/ SendCreate(p)
    \/ SendPost(p)
    \/ SendMark(p)
    \/ SendIncr(p)

SweepSteps(p) ==
    \/ SweepFetch(p)
    \/ RetryPost(p)
    \/ RetryMark(p)
    \/ RetryIncr(p)

InitHook == Init /\ ~degraded

\* The payment service around one payment created without Idempotency-Key:
\* cancel, refund, status update and the inbound webhooks of both providers.
StartCreateSvc(p) ==
    /\ reqs < MaxSvcReq
    /\ nextPay = 1 /\ \A q \in Procs : proc[q].kind # "create"
    /\ StartCreate(p, NoKey)

NextSvc ==
    \/ \E p \in Procs : StartCreateSvc(p)
    \/ \E p \in Procs : \E i \in PayIds : \E st \in PaymentStatus : StartUpdate(p, i, st)
    \/ \E p \in Procs : \E i \in PayIds : StartCancel(p, i)
    \/ \E p \in Procs : \E i \in PayIds : StartRefund(p, i)
    \/ \E p \in Procs : \E prov \in Providers : \E et \in HookEventTypes :
          \E v \in HookPpids : \E valid \in BOOLEAN : StartHook(p, prov, et, v, valid)
    \/ \E p \in Procs : SvcSteps(p)
    \/ \E p \in Procs : HookSteps(p)
    \/ \E p \in Procs : SendSteps(p)
    \/ \E p \in Procs : DbCommit(p)
    \/ \E p \in Procs : DbRollback(p)
    \/ \E p \in Procs : Finish(p)

SpecSvc == InitHook /\ [][NextSvc]_vars

NextHook ==
    \/ \E p \in Procs : StartNotify(p)
    \/ \E p \in Procs : NotifyList(p)
    \/ \E p \in Procs : SendSteps(p)
    \/ \E p \in Procs : StartSweep(p)
    \/ \E p \in Procs : SweepSteps(p)
    \/ \E p \in Procs : DbCommit(p)
    \/ \E p \in Procs : Finish(p)
    \/ AdvanceTime

SpecHook == InitHook /\ [][NextHook]_vars

\* Deliveries and retry sweeps while partners are being deactivated.
NextDeact ==
    \/ NextHook
    \/ \E p \in Procs : \E a \in PartnerIds : StartDeactivate(p, a)
    \/ \E p \in Procs : DeactRead(p)
    \/ \E p \in Procs : DeactWrite(p)

SpecDeact == InitHook /\ [][NextDeact]_vars

\* The same with process stops, under fair scheduling: every started request
\* keeps running unless its process stops, the scheduler keeps invoking
\* sweeps, and time keeps passing.
NextFairHook ==
    \/ NextHook
    \/ \E p \in Procs : Crash(p)

FairSpecHook ==
    /\ InitHook
    /\ [][NextFairHook]_vars
    /\ \A p \in Procs : WF_vars(NotifyList(p) \/ SendSteps(p) \/ SweepSteps(p)
                                \/ DbCommit(p) \/ Finish(p))
    /\ \A p \in Procs : WF_vars(StartSweep(p))
    /\ WF_vars(AdvanceTime)

\* Deliveries and retry sweeps, one request at a time and every POST answered
\* by the partner, while the partner's secret is rotated once by a concurrent
\* rotate-secret request.
RotateOnce(a) ==
    /\ psec[a].rotations = 0
    /\ RotateSecret(a, DefaultGrace)

NoneRunning == \A q \in Procs : proc[q].pc = "idle"

StartNotifyResend(p) ==
    /\ NoneRunning
    /\ reqs < MaxResend
    /\ reqs' = reqs + 1
    /\ proc' = [proc EXCEPT ![p] =
            [Idle EXCEPT !.kind = "notify", !.pc = "notify_list", !.et = "adoption.created",
                         !.off = Inactive]]
    /\ UNCHANGED <<sideVars, payments, txPay, nextPay, cache, lock, done201, provCalls, degraded, logVars>>

StartSweepResend(p) ==
    /\ NoneRunning
    /\ StartSweep(p)

\* The POST of this step, if any, got an HTTP status.
Answers(p) == proc'[p].pc \in {"send_mark", "retry_mark"} => proc'[p].http # 0

NextResend ==
    \/ \E p \in Procs : StartNotifyResend(p)
    \/ \E p \in Procs : NotifyList(p)
    \/ \E p \in Procs : SendSteps(p) /\ Answers(p)
    \/ \E p \in Procs : StartSweepResend(p)
    \/ \E p \in Procs : SweepSteps(p) /\ Answers(p)
    \/ \E p \in Procs : DbCommit(p)
    \/ \E p \in Procs : Finish(p)
    \/ AdvanceTime
    \/ \E a \in PartnerIds : RotateOnce(a)

SpecResend == InitHook /\ [][NextResend]_vars

\* Verified Stripe events of every mapped type, fanned out to a partner that
\* was registered in any status and with either subscription.
PartnerStatus == {"active", "inactive", "suspended"}

FanSubscriptions == {SubscribedEvents, {"payment.succeeded"}}

FanEventTypes == HookEventTypes \cup {"payment.failed"}

InitFan ==
    /\ InitStores
    /\ partners \in [PartnerIds -> [status : PartnerStatus, events : FanSubscriptions,
                                    sent : {0}]]
    /\ ~degraded
    /\ sig = NoSig
    /\ InitSecrets

NextFan ==
    \/ \E p \in Procs : StartCreateSvc(p)
    \/ \E p \in Procs : \E et \in FanEventTypes : \E v \in HookPpids :
          StartHook(p, "stripe", et, v, TRUE)
    \/ \E p \in Procs : SvcInsert(p) \/ SvcProvider(p) \/ SvcUpdate(p) \/ SvcFail(p)
                        \/ CacheResponse(p) \/ ReleasePpe(p)
    \/ \E p \in Procs : HookSteps(p)
    \/ \E p \in Procs : SendSteps(p)
    \/ \E p \in Procs : DbCommit(p)
    \/ \E p \in Procs : DbRollback(p)
    \/ \E p \in Procs : Finish(p)

SpecFan == InitFan /\ [][NextFan]_vars

\* The create route of a process whose shared-store client cannot be built:
\* get_idempotency_manager_with_fallback hands out in-process managers.
StartCreateFallback(p, k) ==
    /\ proc[p].pc = "idle"
    /\ reqs < MaxReq
    /\ reqs' = reqs + 1
    /\ proc' = [proc EXCEPT ![p] =
            [Idle EXCEPT !.kind = "create", !.key = k, !.mgr = "memory",
                         !.pc = IF k # NoKey THEN "cache_get" ELSE "svc_insert",
                         !.prior = IF k # NoKey THEN done201[k] ELSE {}]]
    /\ UNCHANGED <<sideVars, payments, txPay, nextPay, cache, lock, done201, provCalls, degraded, logVars>>

InitFallback == Init /\ ~degraded

NextFallback ==
    \/ \E p \in Procs : \E k \in Keys \cup {NoKey} : StartCreateFallback(p, k)
    \/ \E p \in Procs : CreateSteps(p)
    \/ \E p \in Procs : DbCommit(p)
    \/ \E p \in Procs : DbRollback(p)
    \/ \E p \in Procs : Finish(p)

SpecFallback == InitFallback /\ [][NextFallback]_vars

\* Signing and verifying one webhook; the stores stay as they are.
InitSig == InitDb /\ ~degraded /\ sig \in NewSig /\ InitSecrets

NextSig ==
    \/ \E d \in Skews : SigCreate(d)
    \/ SigForge
    \/ SigRewrite
    \/ SigRaw
    \/ SigTick
    \/ SigVerify

SpecSig == InitSig /\ [][NextSig]_vars

\* Secret rotation and inbound partner webhooks.
InitRot == Init /\ ~degraded

NextRot ==
    \/ \E a \in PartnerIds, g \in GracePeriods : RotateSecret(a, g)
    \/ GraceAdvance
    \/ \E a \in PartnerIds, s \in Secrets : PartnerWebhook(a, s)
    \/ InboundFinish

SpecRot == InitRot /\ [][NextRot]_vars

\* Direct calls on one idempotency coordinator: ~degraded is the in-process
\* manager (or the shared store without faults inside its TTLs), degraded
\* the shared store with errors and expiries.
NextCoord ==
    \/ \E k \in StoreKeys : CallIsProcessing(k)
    \/ \E k \in StoreKeys : CallReleaseLock(k)
    \/ \E k \in StoreKeys, r \in CachedResponses : CallCacheResponse(k, r)
    \/ \E k \in StoreKeys : CallGetCachedResponse(k)
    \/ \E k \in StoreKeys : CallDelete(k)
    \/ \E k \in StoreKeys : LockExpire(k)
    \/ \E k \in StoreKeys : CacheExpire(k)

SpecCoord == Init /\ [][NextCoord]_vars

\* The partner management routes and verify_secret, with two requests at a
\* time; the partners table starts empty.
NextPart ==
    \/ \E p \in PartProcs, n \in PartNames : StartRegister(p, n)
    \/ \E p \in PartProcs : RegisterCheck(p)
    \/ \E p \in PartProcs : RegisterCreate(p)
    \/ \E p \in PartProcs, a \in PartIds, n \in PartNames : StartRename(p, a, n)
    \/ \E p \in PartProcs : RenameRead(p)
    \/ \E p \in PartProcs : RenameCheck(p)
    \/ \E p \in PartProcs : RenameWrite(p)
    \/ \E p \in PartProcs, a \in PartIds, g \in GracePeriods : StartRotate(p, a, g)
    \/ \E p \in PartProcs : RotateRead(p)
    \/ \E p \in PartProcs : RotateWrite(p)
    \/ \E p \in PartProcs, a \in PartIds, c \in Candidates : StartVerify(p, a, c)
    \/ \E p \in PartProcs : VerifySecret(p)
    \/ \E p \in PartProcs : PartCommit(p)
    \/ \E p \in PartProcs : PartRollback(p)
    \/ \E p \in PartProcs : PartFinish(p)
    \/ PartTick

SpecPart == InitRot /\ [][NextPart]_vars

\* ------------------------------------------------------------------ claims
Done(p) == proc[p].pc = "done"

RowsWithKey(k) == {i \in PayIds : IsRow(payments[i]) /\ payments[i].key = k}

\* C1 (as claimed): two concurrent create-payment requests with the same
\* Idempotency-Key, served with a healthy shared store and a provider that
\* answers, leave exactly one Payment row with that key, and each caller gets
\* 201 with the one payment_id or 409; never another error.
C1_SameKeyOneRowNoOtherError ==
    \A p \in Procs : \A q \in Procs \ {p} :
        ( /\ ~degraded /\ reqs = 2
          /\ Done(p) /\ Done(q)
          /\ proc[p].kind = "create" /\ proc[q].kind = "create"
          /\ proc[p].key # NoKey /\ proc[p].key = proc[q].key
          /\ proc[p].code # 502 /\ proc[q].code # 502 )
        => /\ Cardinality(RowsWithKey(proc[p].key)) = 1
           /\ proc[p].code \in {201, 409} /\ proc[q].code \in {201, 409}
           /\ (proc[p].code = 201 /\ proc[q].code = 201) => proc[p].pid = proc[q].pid

\* C2 (as claimed): a request started after a 201 for the same key completed
\* (its Payment committed) returns that payment_id, inserts no row and calls
\* no provider.
C2_LaterRequestReplays ==
    \A p \in Procs :
        (proc[p].kind = "create" /\ proc[p].prior # {})
        => /\ ~proc[p].ins /\ ~proc[p].called
           /\ Done(p) => (proc[p].code = 201 /\ proc[p].pid \in proc[p].prior)

\* C2 (amended): such a request returns that payment_id or is rejected with
\* 409 because another request with the key holds the processing lock; it
\* never inserts a row and never calls the provider, and all 201 responses
\* for one key carry one payment_id.
C2_LaterRequestReplaysOrConflicts ==
    /\ \A k \in Keys : Cardinality(done201[k]) <= 1
    /\ \A p \in Procs :
        (proc[p].kind = "create" /\ proc[p].prior # {})
        => /\ ~proc[p].ins /\ ~proc[p].called
           /\ Done(p) => \/ proc[p].code = 201 /\ proc[p].pid \in proc[p].prior
                         \/ proc[p].code = 409

\* C2 witness: a later request was answered from the ledger lookup.
C2_Witness ==
    \E p \in Procs : /\ Done(p) /\ proc[p].prior # {} /\ proc[p].code = 201
                     /\ proc[p].src = "ledger" /\ proc[p].pid \in proc[p].prior

\* C3 (as claimed): for every key with a persisted Payment row the provider's
\* create_payment was invoked at most once.
C3_OneProviderCallPerKey ==
    \A k \in Keys : RowsWithKey(k) # {} => provCalls[k] <= 1

\* ------------------------------------------------------------------ payment status claims
\* The transition table as the specification states it.
TableTransitions(c) ==
    IF c = "pending" THEN {"processing", "succeeded", "failed", "canceled"}
    ELSE IF c = "processing" THEN {"succeeded", "failed"}
    ELSE IF c = "succeeded" THEN {"refunded"}
    ELSE {}

\* C4 (as claimed): a status update of an existing payment from status cur to
\* st succeeds if and only if (cur, st) is in the transition table; otherwise
\* it fails with InvalidPaymentState and writes nothing.  In particular
\* pending -> succeeded, pending -> failed and succeeded -> refunded succeed and
\* every update of a terminal payment fails.
C4_UpdateFollowsTable ==
    \A p \in Procs :
        (proc[p].kind = "update" /\ Done(p) /\ proc[p].cur # "none")
        => /\ (proc[p].st \in TableTransitions(proc[p].cur)) <=> (proc[p].code = 200)
           /\ (proc[p].st \notin TableTransitions(proc[p].cur))
                 => (proc[p].res = "InvalidPaymentState" /\ ~proc[p].wrote)

\* C5 (as claimed): across create, cancel, refund, status update and inbound
\* webhooks, every change of a stored Payment status is a transition of the
\* table; a payment in failed, canceled or refunded never changes status.
C5_OnlyTableTransitions ==
    [][\A i \in PayIds :
          (IsRow(payments[i]) /\ payments'[i].status # payments[i].status)
          => payments'[i].status \in TableTransitions(payments[i].status)]_vars

\* C6 (as claimed): a request on the Stripe or the mock endpoint whose
\* provider_event_id is already logged returns "already processed" and has no
\* side effect: no Payment write, no second incoming log row, no partner POST.
C6_ReplayIsNoOp ==
    \A p \in Procs :
        (proc[p].kind = "hook" /\ proc[p].dup)
        => /\ ~proc[p].wrote /\ ~proc[p].logged /\ proc[p].nposts = 0
           /\ Done(p) => (proc[p].code = 200 /\ proc[p].res = "already_processed")

\* ------------------------------------------------------------------ webhook log claims
Count(h, S) == Cardinality({i \in 1..Len(h) : h[i] \in S})

\* Failed and successful attempts recorded on row l so far.
NFail(l) == Count(hist[l], {"retrying", "failed"})
NDeliv(l) == Count(hist[l], {"delivered"})

\* The newest version of row l: the uncommitted write if there is one.
LatestLog(l) ==
    IF \E p \in Procs : txLog[p][l].status # "nowrite"
    THEN txLog[CHOOSE p \in Procs : txLog[p][l].status # "nowrite"][l]
    ELSE wlogs[l]

Terminal(l) == wlogs[l].status \in {"delivered", "failed"}

C7_Delay == <<1, 5, 30, 120>>

\* C7: after the N-th mark_failed on a row that started with attempts = 0 (no
\* delivery in between, sweeps not overlapping): for N in 1..4 the row is
\* retrying with attempts = N and next_retry_at = time of the attempt +
\* delay[N], delay = [1, 5, 30, 120] minutes; for N = 5 it is failed with
\* next_retry_at NULL.  There is no sixth failed attempt.
C7_MarkFailedSchedule ==
    \A l \in LogIds :
        (overlaps = 0 /\ NFail(l) >= 1 /\ NDeliv(l) = 0)
        => LET N == NFail(l)
               r == LatestLog(l)
           IN /\ N <= 5
              /\ r.attempts = N
              /\ r.last <= now
              /\ N <= 4 => (r.status = "retrying" /\ r.next = r.last + C7_Delay[N])
              /\ N = 5 => (r.status = "failed" /\ r.next = NoTime)

\* C7 witness: the fifth failed attempt has been committed.
C7_Witness ==
    \E l \in LogIds : /\ overlaps = 0 /\ NFail(l) = 5 /\ NDeliv(l) = 0
                      /\ wlogs[l].status = "failed" /\ wlogs[l].attempts = 5

\* C8 (as claimed): a committed outgoing row in status delivered or failed
\* never changes again and no further POST is made for it, also when two
\* sweeps run over the same due row.
C8_TerminalStaysTerminal ==
    [][\A l \in LogIds :
          (wlogs[l].dir = "outgoing" /\ Terminal(l))
          => (wlogs'[l] = wlogs[l] /\ resps'[l] = resps[l])]_vars

\* C9 (as claimed): every outgoing row that create_outgoing produced
\* eventually is delivered or failed, given repeated sweeps and passing time,
\* also when the process stops between creating the row and recording the
\* first outcome.
C9_EveryRowReachesTerminal ==
    \A l \in LogIds : (hist[l] # <<>>) ~> Terminal(l)

\* C10: the partner answers 500 to the initial send and to the next two
\* retries and 200 to the retry after them (sweeps not overlapping): the row
\* goes pending, retrying, retrying, retrying, delivered and ends with
\* attempts = 4 and next_retry_at NULL.
C10_ThreeFailuresThenDelivered ==
    \A l \in LogIds :
        (overlaps = 0 /\ resps[l] = <<500, 500, 500, 200>> /\ Len(hist[l]) >= 5)
        => /\ hist[l] = <<"pending", "retrying", "retrying", "retrying", "delivered">>
           /\ LatestLog(l).status = "delivered"
           /\ LatestLog(l).attempts = 4
           /\ LatestLog(l).next = NoTime

\* C10 witness: the delivery after three failures has been committed.
C10_Witness ==
    \E l \in LogIds : /\ overlaps = 0 /\ resps[l] = <<500, 500, 500, 200>>
                      /\ wlogs[l].status = "delivered" /\ wlogs[l].attempts = 4

\* ------------------------------------------------------------------ C11
\* C11 (as claimed): whenever an HTTP POST has been made to a partner for an
\* outgoing WebhookLog row, that row is already committed to the store, so a
\* crash or a rollback after the POST cannot remove it.
C11_RowDurableBeforePost ==
    \A l \in LogIds : (resps[l] # <<>>) => IsLog(wlogs[l])

\* ------------------------------------------------------------------ C12
\* An inbound provider webhook whose latest POST to a partner failed
\* (non-2xx answer, timeout or transport error).
FailedPost(p) ==
    proc[p].kind = "hook" /\ proc[p].nposts > 0 /\ ~Is2xx(proc[p].http)

\* C12: a failed delivery to a partner is not raised: send_webhook_to_partner
\* records the failure on the log row and returns, so the fan-out goes on or
\* the route returns; the inbound webhook then ends with HTTP 200 "processed"
\* and its commit keeps the payment status update and the incoming log row.
C12_FailedDeliveryNotRaised ==
    [][\A p \in Procs :
          /\ (FailedPost(p) /\ proc[p].pc = "send_mark" /\ proc'[p].pc # "send_mark")
             => /\ proc'[p].pc \in {"send_create", "commit"}
                /\ txLog'[p][proc[p].lid].status \in {"retrying", "failed"}
          /\ (FailedPost(p) /\ proc[p].pc = "commit" /\ proc'[p].pc # "commit")
             => /\ proc'[p].pc = "done"
                /\ proc'[p].code = 200 /\ proc'[p].res = "processed"
                /\ proc[p].wrote => payments'[proc[p].tgt].status = proc[p].st
                /\ \E l \in LogIds : /\ wlogs'[l].dir = "incoming"
                                     /\ wlogs'[l].evid = proc[p].ev
                /\ wlogs'[proc[p].lid].status \in {"retrying", "failed"}]_vars

\* C12 witness: an inbound webhook that updated the payment and whose POST to
\* the partner failed has returned 200 "processed"; the update is committed.
C12_Witness ==
    \E p \in Procs : /\ FailedPost(p) /\ Done(p) /\ proc[p].wrote
                     /\ proc[p].code = 200 /\ proc[p].res = "processed"
                     /\ payments[proc[p].tgt].status = proc[p].st
                     /\ wlogs[proc[p].lid].status = "retrying"

\* ------------------------------------------------------------------ C13
Verified == sig.stage = "verified"

\* The timestamp the header carries is further than the tolerance from the
\* verifier's clock, behind it or ahead of it.
TooFar ==
    \/ sig.now - sig.ts > TIMESTAMP_TOLERANCE_SECONDS
    \/ sig.ts - sig.now > TIMESTAMP_TOLERANCE_SECONDS

\* C13: the header made by create_webhook_signature_header(payload, secret)
\* verifies with the same payload and secret, with no error, at the time it
\* was made and as long as the clock is within the tolerance of it.
C13_MadeHeaderVerifies ==
    (Verified /\ sig.how = "created" /\ ~TooFar)
    => (sig.ok /\ sig.err = "none")

\* C13 witness: a header made at the current time for a payload holding the
\* separators of the header and of the signed message has been verified.
C13_Witness ==
    /\ Verified /\ sig.how = "created" /\ sig.ts = sig.now /\ sig.ticks = 0
    /\ sig.payload = <<",", ".">> /\ sig.ok

\* ------------------------------------------------------------------ C14
\* Headers that carry timestamp sig.ts and a v1 signature, in any spelling.
Carried == {"created", "other_secret", "other_payload", "other_timestamp",
            "swapped", "spaced", "padded", "extra_item"}

\* C14: a header whose timestamp is further than the tolerance from the
\* clock, in the past or in the future, fails with "Timestamp out of
\* tolerance" also when its signature is right; within the tolerance
\* (the bound included) the timestamp check passes.
C14_TimestampTolerance ==
    (Verified /\ sig.how \in Carried)
    => /\ TooFar => (~sig.ok /\ sig.err = "Timestamp out of tolerance")
       /\ ~TooFar => sig.err # "Timestamp out of tolerance"

\* C14 witness: a rightly signed header from 301 seconds in the future has
\* been refused.
C14_Witness ==
    /\ Verified /\ sig.how = "created" /\ sig.ts - sig.now = 301
    /\ ~sig.ok /\ sig.err = "Timestamp out of tolerance"

\* ------------------------------------------------------------------ C16
\* C16: a header whose signature was computed with another secret, over
\* another payload or for another timestamp than the one it carries never
\* verifies; with a timestamp inside the tolerance the error is "Invalid
\* signature" (outside of it the timestamp error comes first).
C16_SignatureBindsTriple ==
    (Verified /\ sig.how \in {"other_secret", "other_payload", "other_timestamp"})
    => /\ ~sig.ok
       /\ ~TooFar => sig.err = "Invalid signature"

\* C16 witness: a header with a fresh timestamp whose signature was computed
\* for ten times that timestamp has been refused with "Invalid signature".
C16_Witness ==
    /\ Verified /\ sig.how = "other_timestamp" /\ sig.sigts = sig.ts * 10
    /\ sig.ts = sig.now /\ sig.payload # <<>>
    /\ ~sig.ok /\ sig.err = "Invalid signature"

\* ------------------------------------------------------------------ C17
\* The results verify_webhook_signature_header returns.
VerifyErrors ==
    {"Invalid signature header format", "Failed to parse signature",
     "Timestamp out of tolerance", "Invalid signature", "Verification error"}

\* C17: a header without a t entry or without a v1 entry fails with "Invalid
\* signature header format", whatever the payload, the secret and the clock;
\* and for every header the function returns (True, None) or (False, error),
\* it does not raise.
C17_MissingEntryIsInvalidFormat ==
    Verified
    => /\ (sig.how \in {"no_t", "no_v1", "v0_only", "raw"})
          => (~sig.ok /\ sig.err = "Invalid signature header format")
       /\ sig.ok <=> (sig.err = "none")
       /\ ~sig.ok => sig.err \in VerifyErrors

\* C17 witness: a header with a v1 entry and no t entry has been refused.
C17_Witness ==
    /\ Verified /\ sig.how = "no_t" /\ sig.hdr # <<>>
    /\ ~sig.ok /\ sig.err = "Invalid signature header format"

\* ------------------------------------------------------------------ C15
\* C15 (as claimed): after a rotation with grace period g at time r, an
\* inbound partner webhook freshly signed with the old secret is accepted at
\* every time before r + g and refused at every time from r + g on; one
\* signed with the new secret is accepted throughout.
C15_OldSecretUntilGraceEnds ==
    (pw.stage = "done" /\ pw.previous # "none")
    => /\ (pw.signer = pw.previous) => ((pw.code = 200) <=> (pw.at < pw.until))
       /\ (pw.signer = pw.secret) => (pw.code = 200)

\* ------------------------------------------------------------------ C18
\* The step is a call of operation op with key k on the coordinator.
IsCall(op, k) == calls'.n = calls.n + 1 /\ calls'.op = op /\ calls'.key = k

\* C18 (as claimed): on one coordinator, is_processing(k) answers True
\* exactly when the lock of k is held, and after answering False the caller
\* holds it; release_lock(k) frees it, so the next is_processing(k) answers
\* False; no call changes the lock of another key.
C18_LockMutualExclusion ==
    [][\A k \in StoreKeys :
          /\ IsCall("is_processing", k)
             => /\ (calls'.ret = "True") <=> lock[k]
                /\ lock'[k]
                /\ \A j \in StoreKeys \ {k} : lock'[j] = lock[j]
          /\ IsCall("release_lock", k)
             => /\ ~lock'[k]
                /\ \A j \in StoreKeys \ {k} : lock'[j] = lock[j]]_vars

\* ------------------------------------------------------------------ C19
\* C19: on the in-process coordinator the cache is a map: get_cached_response
\* returns what the calls last stored for the key (nothing for a key never
\* cached or deleted since); cache_response and delete change the entry of
\* their key only, and delete leaves every lock as it is.
C19_CacheIsMap ==
    [][~degraded
       => \A k \in StoreKeys :
             /\ IsCall("get_cached_response", k)
                => (calls'.ret = calls.put[k] /\ cache' = cache /\ lock' = lock)
             /\ \A r \in CachedResponses :
                   (IsCall("cache_response", k) /\ calls'.put[k] = r)
                   => (cache' = [cache EXCEPT ![k] = r] /\ calls'.ret = "True")
             /\ IsCall("delete", k)
                => (cache' = [cache EXCEPT ![k] = NoResp] /\ lock' = lock)]_vars

\* C19 witness: a response was cached for another key and for k, the one of
\* k was deleted, and get_cached_response(k) has returned nothing while the
\* other entry is still there.
C19_Witness ==
    /\ ~degraded /\ calls.op = "get_cached_response" /\ calls.ret = NoResp
    /\ calls.put[calls.key] = NoResp /\ cache[calls.key] = NoResp
    /\ \E j \in StoreKeys \ {calls.key} : cache[j] # NoResp /\ calls.put[j] = cache[j]
    /\ calls.n = 4

\* ------------------------------------------------------------------ C20
\* C20 (as claimed): when provider.create_payment raised, the request is
\* answered 502 (PaymentProviderError) and the Payment row it created is
\* stored with status failed and the error text as failure_reason; no row of
\* the request stays pending.
C20_FailedRowIsDurable ==
    \A p \in Procs :
        (proc[p].kind = "create" /\ proc[p].res = "raise" /\ Done(p))
        => /\ proc[p].code = 502
           /\ IsRow(payments[proc[p].pid])
           /\ payments[proc[p].pid].status = "failed"
           /\ payments[proc[p].pid].reason = "error"


\* ------------------------------------------------------------------ C21
\* The keys refund_payment adds to the metadata map.
RefundKeys == {"refund_id", "refund_amount", "refund_reason"}

\* C21 (as claimed): when refund_payment ran on a succeeded payment with a
\* provider_payment_id and the provider's refund succeeded, the request is
\* answered 200 and the payment is stored as refunded with the metadata it
\* had before plus refund_id, refund_amount and refund_reason.
C21_RefundEndsRefunded ==
    \A p \in Procs :
        (proc[p].kind = "refund" /\ Done(p) /\ proc[p].called /\ proc[p].st = "success")
        => /\ proc[p].code = 200
           /\ payments[proc[p].tgt].status = "refunded"
           /\ payments[proc[p].tgt].meta = RequestMetadata \cup RefundKeys


\* ------------------------------------------------------------------ C22
\* C22 (as claimed): a cancel request that found the payment in a status
\* other than pending is answered InvalidPaymentState and has written
\* nothing; one that found it pending leaves it stored as canceled when the
\* request completes.
C22_CancelOnlyPending ==
    [][\A p \in Procs :
          (proc[p].kind = "cancel" /\ proc[p].cur # "none"
           /\ proc[p].pc # "done" /\ proc'[p].pc = "done")
          => IF proc[p].cur # "pending"
             THEN /\ proc'[p].res = "InvalidPaymentState" /\ ~proc'[p].wrote
                  /\ payments' = payments
             ELSE payments'[proc[p].tgt].status = "canceled"]_vars


\* ------------------------------------------------------------------ C23
\* The step of refund request p that leaves position pc.
RefundStep(p, pc) ==
    proc[p].kind = "refund" /\ proc[p].pc = pc /\ proc'[p].pc # pc

\* The refund request p fails with exception e and has written nothing.
RefundFails(p, e) ==
    /\ proc'[p].pc = "rollback" /\ proc'[p].res = e
    /\ txPay'[p] = NoWrites /\ payments' = payments

\* C23: refund_payment on a payment that is not succeeded fails with
\* InvalidPaymentState, on a succeeded payment without provider_payment_id
\* with PaymentProviderError, both without calling the provider; when the
\* provider reports or raises a failure it fails with PaymentProviderError
\* (502); no step of a failing refund request changes a stored payment.
C23_RefundFailuresChangeNothing ==
    [][\A p \in Procs :
          LET row == PayView(p)[proc[p].tgt]
          IN /\ (RefundStep(p, "refund_read") /\ IsRow(row) /\ row.status # "succeeded")
                => (RefundFails(p, "InvalidPaymentState") /\ ~proc'[p].called)
             /\ (RefundStep(p, "refund_read") /\ row.status = "succeeded" /\ row.ppid <= 0)
                => (RefundFails(p, "PaymentProviderError") /\ ~proc'[p].called)
             /\ (RefundStep(p, "refund_provider") /\ proc'[p].st \in {"failed", "raise"})
                => (RefundFails(p, "PaymentProviderError") /\ proc'[p].code = 502)
             /\ (RefundStep(p, "rollback") /\ proc[p].st # "success")
                => (payments' = payments /\ proc'[p].pc = "done")]_vars

\* C23 witness: a refund request has completed with PaymentProviderError
\* after the provider reported a failure, and the payment is still succeeded
\* with the metadata it was created with.
C23_Witness ==
    \E p \in Procs :
        /\ proc[p].kind = "refund" /\ Done(p) /\ proc[p].res = "PaymentProviderError"
        /\ proc[p].called /\ proc[p].st = "failed" /\ proc[p].code = 502
        /\ payments[proc[p].tgt].status = "succeeded"
        /\ payments[proc[p].tgt].meta = RequestMetadata


\* ------------------------------------------------------------------ C24
\* No two stored partners share a name.
NamesUnique ==
    \A a, b \in PartIds : (a # b /\ IsPart(prows[a]) /\ IsPart(prows[b]))
                          => prows[a].name # prows[b].name

SecretsInUse ==
    {prows[a].secret : a \in PartIds} \cup {prows[a].previous : a \in PartIds}
    \cup {ptx[q][a].secret : q \in PartProcs, a \in PartIds}
    \cup {ptx[q][a].previous : q \in PartProcs, a \in PartIds}

\* C25: rotate_secret on an existing partner writes previous_secret = the
\* secret the partner had when the call read it, previous_secret_valid_until
\* = now + grace period and a newly generated secret different from every
\* secret in use, which it returns; the commit stores exactly that row.  On
\* an unknown partner it is answered PartnerNotFound (404) and no partner
\* row changes.
C25_RotateMovesSecret ==
    [][\A p \in PartProcs :
          LET a == preq[p].id
          IN /\ (preq[p].op = "rotate" /\ preq[p].pc = "rot_read" /\ preq'[p].pc # "rot_read")
                => IF IsPart(prows[a])
                   THEN preq'[p].pc = "rot_write" /\ preq'[p].seen.secret = prows[a].secret
                   ELSE /\ preq'[p].pc = "rollback" /\ preq'[p].res = "PartnerNotFound"
                        /\ preq'[p].code = 404 /\ ptx'[p] = NoPartWrites /\ prows' = prows
             /\ (preq[p].op = "rotate" /\ preq[p].pc = "rot_write" /\ preq'[p].pc # "rot_write")
                => /\ ptx'[p][a].previous = preq[p].seen.secret
                   /\ ptx'[p][a].until = now + preq[p].grace
                   /\ ptx'[p][a].secret \notin SecretsInUse
                   /\ ptx'[p][a].secret # preq[p].seen.secret
                   /\ preq'[p].ret = ptx'[p][a].secret /\ preq'[p].code = 200
                   /\ \A b \in PartIds \ {a} : ptx'[p][b] = ptx[p][b]
             /\ (preq[p].op = "rotate" /\ preq[p].pc = "commit" /\ preq'[p].pc = "done")
                => /\ prows'[a] = ptx[p][a]
                   /\ \A b \in PartIds \ {a} : prows'[b] = prows[b]
             /\ (preq[p].op = "rotate" /\ preq[p].pc = "rollback" /\ preq'[p].pc = "done")
                => prows' = prows]_vars

\* C25 witness: a partner was rotated twice; the stored row has the secret
\* returned by the second rotation and, as previous secret, the one of the
\* first, valid until a later time; a rotation of an unknown partner was
\* answered 404.
C25_Witness ==
    \E p, q \in PartProcs :
        /\ preq[p].op = "rotate" /\ preq[p].pc = "done" /\ preq[p].code = 200
        /\ prows[preq[p].id].secret = preq[p].ret
        /\ prows[preq[p].id].previous = preq[p].seen.secret
        /\ preq[p].seen.previous # 0
        /\ prows[preq[p].id].until > now
        /\ preq[q].op = "rotate" /\ preq[q].pc = "done" /\ preq[q].code = 404
        /\ ~IsPart(prows[preq[q].id])


\* ------------------------------------------------------------------ C26
\* The verify_secret call p has just answered.
Answered(p) == preq[p].op = "verify" /\ preq[p].pc = "verify" /\ preq'[p].pc = "done"

\* C26 (as claimed): verify_secret(partner, candidate) answers True exactly
\* when the candidate is the partner's current secret, or is its previous
\* secret and the time is strictly before previous_secret_valid_until; it
\* answers False for an unknown partner and for a previous secret whose
\* grace period has ended.
C26_VerifySecret ==
    [][\A p \in PartProcs :
          Answered(p) =>
            LET row == prows[preq[p].id]
                c == preq[p].cand
                current == IsPart(row) /\ c = row.secret
                previous == IsPart(row) /\ row.previous # 0 /\ c = row.previous
            IN /\ (preq'[p].res = "True") <=> (current \/ (previous /\ now < row.until))
               /\ ~IsPart(row) => preq'[p].res = "False"
               /\ (previous /\ ~current /\ now >= row.until) => preq'[p].res = "False"]_vars

\* C26, with the datetime column read back naive: the same statement for
\* the calls in which the comparison with utcnow() can be made.
C26_VerifySecretNaive ==
    [][\A p \in PartProcs :
          (Answered(p) /\ preq'[p].tz = "naive") =>
            LET row == prows[preq[p].id]
                c == preq[p].cand
                current == IsPart(row) /\ c = row.secret
                previous == IsPart(row) /\ row.previous # 0 /\ c = row.previous
            IN /\ (preq'[p].res = "True") <=> (current \/ (previous /\ now < row.until))
               /\ ~IsPart(row) => preq'[p].res = "False"
               /\ (previous /\ ~current /\ now >= row.until) => preq'[p].res = "False"]_vars


\* ------------------------------------------------------------------ C27
\* The partner the next POST of request p goes to, 0 if p is not about to POST.
PostTarget(p) ==
    IF proc[p].pc = "send_post" THEN Head(proc[p].todo)
    ELSE IF proc[p].pc = "retry_post" THEN wlogs[Head(proc[p].due)].partner
    ELSE 0

\* C27 (as claimed): a fan-out or a retry sweep that started after a
\* partner's deactivation was stored sends no webhook POST to that partner.
C27_NoPostAfterDeactivate ==
    [][\A p \in Procs :
          (PostTarget(p) # 0 /\ proc'[p].nposts = proc[p].nposts + 1)
          => PostTarget(p) \notin proc[p].off]_vars


\* ------------------------------------------------------------------ C28
\* C28: every WebhookLog row, committed or written in an open transaction,
\* has next_retry_at set if and only if its status is retrying.
C28_RetryTimeIffRetrying ==
    /\ \A l \in LogIds : IsLog(wlogs[l]) => ((wlogs[l].next # NoTime) <=> (wlogs[l].status = "retrying"))
    /\ \A p \in Procs : \A l \in LogIds :
          IsLog(txLog[p][l]) => ((txLog[p][l].next # NoTime) <=> (txLog[p][l].status = "retrying"))

\* C28 witness: a row that was retrying, with a retry time, has been
\* delivered by a sweep and has none.
C28_Witness ==
    \E l \in LogIds :
        /\ wlogs[l].status = "delivered" /\ wlogs[l].attempts >= 2 /\ wlogs[l].next = NoTime
        /\ \E i \in 1..Len(hist[l]) : hist[l][i] = "retrying"


\* ------------------------------------------------------------------ C29
\* C29 (as claimed): the stored attempts of a WebhookLog row never decrease,
\* and a request that records the outcome of a POST (mark_delivered or
\* mark_failed) writes the row's attempts as one more than the row had.
C29_AttemptsCountUp ==
    [][/\ \A l \in LogIds : IsLog(wlogs[l]) => wlogs'[l].attempts >= wlogs[l].attempts
       /\ \A p \in Procs :
             (proc[p].pc \in {"send_mark", "retry_mark"} /\ proc'[p].pc # proc[p].pc)
             => txLog'[p][proc[p].lid].attempts = LogView(p)[proc[p].lid].attempts + 1]_vars


\* ------------------------------------------------------------------ C30
\* C30 (as claimed): the status check and the status write of cancel_payment
\* are one conditional update, so with a payment.succeeded or payment.failed
\* webhook running concurrently the cancel's UPDATE is applied only to a
\* payment that is still pending; when the webhook's transition was stored
\* first the cancel is rejected or skipped without writing.
C30_CancelWritesOnlyPending ==
    [][\A p \in Procs :
          (proc[p].kind = "cancel" /\ proc[p].pc = "cancel_update"
           /\ proc'[p].pc # "cancel_update")
          => PayView(p)[proc[p].tgt].status = "pending"]_vars


\* ------------------------------------------------------------------ C31
\* The X-Webhook-Signature header of an attempt signed with secret s
\* at the current time, over a fixed payload.
AttemptHeader(s) == CreateWebhookSignatureHeader(JsonBody, s, now * 60)

\* Whether the receiver accepts that header when it verifies with secret s2.
AcceptedUnder(s, s2) ==
    VerifyWebhookSignatureHeader(JsonBody, AttemptHeader(s), s2,
                                 TIMESTAMP_TOLERANCE_SECONDS, now * 60)[1]

\* The step of p that signs a retry: _retry_webhook, after get_by_id
\* returned the partner.
Signs(p) == proc[p].pc = "retry_post" /\ proc'[p].pc = "retry_mark"

\* The partner of the retry p signs.
SignedFor(p) == wlogs[Head(proc[p].due)].partner

\* C31 (as claimed): a retry carries a signature that verifies under the
\* secret that is the partner's current secret when the retry is made; when
\* rotate_secret ran since the row's earlier attempt, it verifies under the
\* new secret and not under the old one.
C31_RetrySignedWithCurrentSecret ==
    [][\A p \in Procs :
          Signs(p) =>
             /\ AcceptedUnder(proc'[p].signed, psec[SignedFor(p)].secret)
             /\ psec[SignedFor(p)].previous # "none"
                => ~AcceptedUnder(proc'[p].signed, psec[SignedFor(p)].previous)]_vars

\* The same for the first retry a sweep makes for a partner, where
\* get_by_id loads the Partner row: it holds.
C31_FirstLoadSignsCurrent ==
    [][\A p \in Procs :
          (Signs(p) /\ proc[p].pobj[SignedFor(p)] = "none")
          => AcceptedUnder(proc'[p].signed, psec[SignedFor(p)].secret)]_vars


\* ------------------------------------------------------------------ C32
\* The committed rows that carry provider_event_id e.
RowsOfEvent(e) == {l \in LogIds : IsLog(wlogs[l]) /\ wlogs[l].evid = e}

\* A verified inbound event whose request has been answered.
HookAnswered(p) == proc[p].kind = "hook" /\ Done(p) /\ proc[p].code # 400

\* C32: a verified inbound event that is processed leaves exactly one row
\* with its provider_event_id, an incoming row with status delivered and
\* attempts 1 that names the matched payment or none; a verified event that is
\* not processed is a duplicate, its row being there already; a request that
\* matched no payment writes no payment and sends no partner webhook.
C32_OneIncomingRowPerEvent ==
    /\ \A p \in Procs :
          (HookAnswered(p) /\ proc[p].res = "processed")
          => /\ Cardinality(RowsOfEvent(proc[p].ev)) = 1
             /\ \A l \in RowsOfEvent(proc[p].ev) :
                   /\ wlogs[l].dir = "incoming" /\ wlogs[l].status = "delivered"
                   /\ wlogs[l].attempts = 1 /\ wlogs[l].pay = proc[p].tgt
    /\ \A p \in Procs :
          (HookAnswered(p) /\ proc[p].res # "processed")
          => /\ proc[p].res \in {"already_processed", "IntegrityError"}
             /\ RowsOfEvent(proc[p].ev) # {}
    /\ \A p \in Procs :
          (proc[p].kind = "hook" /\ proc[p].tgt = 0)
          => /\ txPay[p] = NoWrites
             /\ proc[p].nposts = 0
             /\ \A l \in LogIds : txLog[p][l].dir # "outgoing"
    /\ \A l \in LogIds :
          (IsLog(wlogs[l]) /\ wlogs[l].dir = "incoming")
          => wlogs[l].status = "delivered" /\ wlogs[l].attempts = 1

\* An event that matched no payment and one that matched a payment have both
\* been processed and logged.
C32_Witness ==
    /\ \E l \in LogIds : IsLog(wlogs[l]) /\ wlogs[l].dir = "incoming" /\ wlogs[l].pay = 0
    /\ \E l \in LogIds : IsLog(wlogs[l]) /\ wlogs[l].dir = "incoming" /\ wlogs[l].pay # 0
    /\ \E p \in Procs : HookAnswered(p) /\ proc[p].res = "processed"


\* ------------------------------------------------------------------ C33
\* The event types that change a payment's status.
StatusEvents == {"payment.succeeded", "payment.failed", "payment.canceled",
                 "payment.refunded"}

\* Partner a is active and subscribed to event type et.
Eligible(a, et) == partners[a].status = "active" /\ et \in partners[a].events

\* The committed outgoing rows request p created for partner a, for its event
\* type and the payment it matched.
MadeFor(p, a) ==
    {l \in proc[p].made : /\ wlogs[l].dir = "outgoing" /\ wlogs[l].partner = a
                          /\ wlogs[l].et = proc[p].et /\ wlogs[l].pay = proc[p].tgt}

DueNow(p, l) == LogView(p)[l].status = "retrying" /\ LogView(p)[l].next <= now

\* r is what a query for the due rows with the given limit has to return:
\* due rows only, each once, earliest next_retry_at first, at most limit of
\* them, and a due row is left out only when limit rows precede it.
IsDueList(p, r, limit) ==
    /\ Len(r) <= limit
    /\ \A i \in 1..Len(r) : DueNow(p, r[i])
    /\ \A i, j \in 1..Len(r) :
          i < j => r[i] # r[j] /\ LogView(p)[r[i]].next <= LogView(p)[r[j]].next
    /\ \A l \in LogIds :
          (DueNow(p, l) /\ \A i \in 1..Len(r) : r[i] # l)
          => /\ Len(r) = limit
             /\ \A i \in 1..Len(r) : LogView(p)[r[i]].next <= LogView(p)[l].next

\* C34: the list a sweep fetches holds the rows that are retrying and due at
\* the time of the query, earliest-due first and at most limit of them (for
\* every limit, not only the default); the sweep POSTs to and writes only
\* rows of that list, one after the other, so rows that were pending,
\* delivered, failed or not yet due at the query get no request and no write
\* from it.
C34_SweepTouchesOnlyDueRows ==
    [][/\ \A p \in Procs : \A n \in 0..MaxLog :
             IsDueList(p, GetPendingRetriesLimit(p, n), n)
       /\ \A p \in Procs :
             (proc[p].kind = "sweep" /\ proc[p].pc = "sweep_fetch"
              /\ proc'[p].pc # "sweep_fetch")
             => IsDueList(p, proc'[p].due, RetryLimit)
       /\ \A p \in Procs :
             (proc[p].kind = "sweep" /\ proc'[p] # proc[p]
              /\ proc[p].pc \in {"retry_post", "retry_mark", "retry_incr"})
             => /\ \/ proc'[p].due \in {proc[p].due, <<>>}
                   \/ proc[p].due # <<>> /\ proc'[p].due = Tail(proc[p].due)
                /\ \A l \in LogIds :
                      (proc[p].due = <<>> \/ l # Head(proc[p].due))
                      => txLog'[p][l] = txLog[p][l] /\ resps'[l] = resps[l]]_vars

\* A sweep has fetched two due rows, the one with the larger id first because
\* its retry time is earlier, and has POSTed to the first of them.
C34_Witness ==
    \E p \in Procs :
        /\ proc[p].kind = "sweep" /\ proc[p].pc = "retry_mark"
        /\ Len(proc[p].due) = 2
        /\ proc[p].due[1] > proc[p].due[2]
        /\ wlogs[proc[p].due[1]].next < wlogs[proc[p].due[2]].next

\* ------------------------------------------------------------------ C35
\* The request in slot p gets its answer from get_cached_response.
ReadsCache(p) ==
    /\ proc[p].kind = "create" /\ proc[p].mgr = "memory"
    /\ proc[p].pc = "cache_get" /\ proc'[p].pc # "cache_get"

\* The request in slot p finishes a release_lock for a lock it took.
ReleasesLock(p) ==
    /\ proc[p].kind = "create" /\ proc[p].mgr = "memory" /\ proc[p].held
    /\ proc[p].pc \in {"release", "ppe_release", "exc_release"}
    /\ proc'[p].pc \notin {"release", "ppe_release", "exc_release"}

\* No manager the request obtained still holds the lock of its key.
LockGone(r) == \A i \in 1..Len(r.inst) : r.key \notin r.inst[i].locks

\* C35: with the in-process fallback coordinator in use, a create-payment
\* request whose key already has a completed 201 response is answered by
\* get_cached_response with that cached response, and the lock a request
\* releases at its end is the lock it acquired at its start.
C35_FallbackCachesAndReleases ==
    [][\A p \in Procs :
          /\ (ReadsCache(p) /\ proc[p].prior # {})
                => (proc'[p].src = "cache" /\ proc'[p].pid \in proc[p].prior)
          /\ ReleasesLock(p) => LockGone(proc'[p])]_vars

\* The cache half of C35 alone.
C35_CacheHalf ==
    [][\A p \in Procs :
          (ReadsCache(p) /\ proc[p].prior # {})
             => (proc'[p].src = "cache" /\ proc'[p].pid \in proc[p].prior)]_vars

\* The lock half of C35 alone.
C35_LockHalf ==
    [][\A p \in Procs : ReleasesLock(p) => LockGone(proc'[p])]_vars

\* ------------------------------------------------------------------ C36
\* A create-payment request with key k has been received and not yet answered.
InFlight(k) ==
    \E p \in Procs : proc[p].kind = "create" /\ proc[p].key = k
                     /\ proc[p].pc \notin {"idle", "done"}

\* The request in slot p leaves release_lock, on any of the three exit paths.
LeavesRelease(p) ==
    /\ proc[p].kind = "create" /\ proc[p].key # NoKey
    /\ proc[p].pc \in {"release", "ppe_release", "exc_release"}
    /\ proc'[p].pc \notin {"release", "ppe_release", "exc_release"}

\* The request in slot p takes a step and is one that was answered from the
\* cache or rejected with 409.
StepOfUnlocked(p) ==
    /\ proc[p].kind = "create" /\ proc'[p] # proc[p]
    /\ proc'[p].src = "cache" \/ proc'[p].code = 409

\* is_processing answers the request in slot p with 409.
Gets409(p) ==
    /\ proc[p].kind = "create" /\ proc[p].pc = "lock_try" /\ proc'[p].code = 409

\* What C36 says of one step and the state it leads to.
LockDiscipline ==
    /\ \A p \in Procs :
          /\ (LeavesRelease(p) /\ proc[p].held) => ~lock'[proc[p].key]
          /\ StepOfUnlocked(p) => lock' = lock
          /\ Gets409(p) => \E q \in Procs \ {p} :
                              /\ proc[q].kind = "create" /\ proc[q].key = proc[p].key
                              /\ proc[q].pc \notin {"idle", "done"}
    /\ \A k \in Keys : ~InFlight(k)' => ~lock'[k]

DeliveredRows(a) ==
    {l \in 1..MaxLog : wlogs[l].dir = "outgoing" /\ wlogs[l].partner = a
                          /\ wlogs[l].status = "delivered"}

\* C37: in every reachable state a partner's total_webhooks_sent equals the
\* number of its outgoing WebhookLog rows with status delivered.
C37_CounterCountsDelivered ==
    \A a \in PartnerIds : partners[a].sent = Cardinality(DeliveredRows(a))

\* ------------------------------------------------------------------ C38
\* C38: in every reachable state, overlapping retry sweeps included, every
\* WebhookLog row has attempts <= MAX_ATTEMPTS and a row with status failed
\* has attempts = MAX_ATTEMPTS.
C38_AttemptsBounded ==
    \A l \in 1..MaxLog :
        /\ wlogs[l].attempts <= MAX_ATTEMPTS
        /\ wlogs[l].status = "failed" => wlogs[l].attempts = MAX_ATTEMPTS

\* The second half of C38 alone: a failed row has used up its attempts.
C38_FailedRowsAreSpent ==
    \A l \in 1..MaxLog : wlogs[l].status = "failed" => wlogs[l].attempts = MAX_ATTEMPTS

\* ------------------------------------------------------------------ C39
\* Request q carries the same verified provider event as request p.
SameEvent(p, q) ==
    /\ q # p /\ proc[q].kind = "hook" /\ proc[p].kind = "hook"
    /\ proc[q].code # 400 /\ proc[q].ev = proc[p].ev

\* Request p POSTs to a partner in this step.
PostsNow(p) ==
    /\ proc[p].kind = "hook" /\ proc[p].pc = "send_post" /\ proc'[p].pc = "send_mark"

\* Request p's transaction commits in this step.
CommitsNow(p) ==
    /\ proc[p].kind = "hook" /\ proc[p].pc = "commit" /\ proc'[p].pc = "done"

\* The partners request p has created an outgoing row for.
SentTo(p) == {a \in PartnerIds : \E l \in proc[p].made : LogView(p)[l].partner = a}

\* C39: of the requests that deliver one provider event, two concurrent ones
\* included, at most one takes effect: a request POSTs to a partner only
\* while no row of the event is committed and no other request of the event
\* has logged it or POSTed, it POSTs to each partner at most once, and a
\* commit that carries a status update or follows a POST is the first commit
\* of that event.
C39_EventTakesEffectOnce ==
    [][\A p \in Procs :
          /\ PostsNow(p)
                => /\ RowsOfEvent(proc[p].ev) = {}
                   /\ \A q \in Procs : SameEvent(p, q)
                         => ~proc[q].logged /\ proc[q].nposts = 0
                   /\ Cardinality(proc[p].made) = Cardinality(SentTo(p))
                   /\ proc'[p].nposts = Cardinality(proc[p].made)
          /\ (CommitsNow(p) /\ (proc[p].wrote \/ proc[p].nposts > 0))
                => /\ RowsOfEvent(proc[p].ev) = {}
                   /\ Cardinality(RowsOfEvent(proc[p].ev)') = 1]_vars

\* Two requests of one event ran concurrently, both past the duplicate
\* check: one updated the payment, sent the partner webhook and committed,
\* the other was stopped at the unique index and rolled back.
C39_Witness ==
    \E p \in Procs : \E q \in Procs :
        /\ SameEvent(p, q) /\ ~proc[p].dup /\ ~proc[q].dup
        /\ Done(p) /\ proc[p].res = "processed" /\ proc[p].wrote /\ proc[p].nposts > 0
        /\ Done(q) /\ proc[q].res = "IntegrityError" /\ proc[q].nposts = 0

====
